---- MODULE Spec2Model ----
(***************************************************************************)
(* Model of the errata runtime engine (packages/errata/src/errata.ts and   *)
(* errata-error.ts): the code registry, the creation path with its        *)
(* onCreate hooks, the normalization path (ensure), and the                *)
(* serialize / deserialize boundary with its onSerialize hooks.            *)
(*                                                                         *)
(* JavaScript values are encoded as follows.                               *)
(*   - an optional scalar (x?: T) is <<>> when undefined and <<v>>         *)
(*     otherwise, so that `a ?? b` is Coalesce(a, b);                      *)
(*   - a plain object is a function from the keys it owns to values, so    *)
(*     `delete o.k` and `k in o` are about DOMAIN;                         *)
(*   - an opaque details payload is a record [t, n, of]: t names its       *)
(*     shape, n is its retryAfter number, of names the value it wraps;     *)
(*   - object identity of an ErrataError is its id field: 0 is the         *)
(*     instance the caller already holds, FreshId the one allocated by     *)
(*     the call being modelled.                                            *)
(***************************************************************************)
EXTENDS Integers, Sequences, FiniteSets, TLC

VARIABLES engine, input, op, arg, out, origin, steps, task, matched, registry,
          flat, client, nest

(* what a call on the engine leaves alone: the registry built at           *)
(* construction, the code tree handed to defineCodes, the client, and the *)
(* stack of engine calls in progress                                       *)
aux == <<registry, flat, client, nest>>
vars == <<engine, input, op, arg, out, origin, steps, task, matched, aux>>

(***************************************************************************)
(* Bounds of the model                                                     *)
(***************************************************************************)
MaxPlugins == 2
MaxCrossings == 3
MaxLen == 3
MaxPatterns == 2
MaxHandlers == 3
MaxNesting == 3
MaxStack == 4

(***************************************************************************)
(* Program constants                                                       *)
(***************************************************************************)
LIB_NAME == "errata"
UnknownErrorCode == "errata.unknown_error"
EngineDefaultStatus == 500
defaultLogLevel == "error"
FreshId == 1

(***************************************************************************)
(* Optional values and the nullish-coalescing operator                     *)
(***************************************************************************)
Undefined == <<>>
Some(v) == <<v>>
Coalesce(a, b) == IF a = Undefined THEN b ELSE a

(***************************************************************************)
(* Details payloads                                                        *)
(***************************************************************************)
Det(t, n, of) == [t |-> t, n |-> n, of |-> of]
DetUndefined == Det("undefined", 0, "")
DetNull == Det("null", 0, "")
DetRetryAfter(n) == Det("retryAfter", n, "")
DetReason == Det("object", 0, "reason")
DetCause(name) == Det("cause", 0, name)
DetRaw(name) == Det("raw", 0, name)

(***************************************************************************)
(* The code registry                                                       *)
(***************************************************************************)
StaticMessage(text) == [kind |-> "static", text |-> text]
RetryAfterMessage == [kind |-> "function", text |-> "Retry after "]
NoMessage == [kind |-> "undefined", text |-> ""]

CodeEntry(status, message, expose, retryable, tags, details) ==
  [status |-> status, message |-> message, expose |-> expose,
   retryable |-> retryable, logLevel |-> Undefined, tags |-> tags,
   details |-> details]

(* a CodeConfig that sets logLevel and leaves status, expose and tags out *)
SeverityEntry ==
  [CodeEntry(Undefined, StaticMessage("Degraded"), Undefined,
             Some(TRUE), Undefined, DetUndefined)
     EXCEPT !.logLevel = Some("warn")]

UserCodes ==
  ("auth.invalid_token" :>
      CodeEntry(Some(401), StaticMessage("Invalid token"), Some(TRUE),
                Some(FALSE), Some(<<"auth", "security">>), DetUndefined))
  @@ ("billing.retry_later" :>
      CodeEntry(Some(429), RetryAfterMessage, Some(TRUE),
                Some(TRUE), Some(<<"billing", "retry">>), DetRetryAfter(45)))
  @@ ("core.internal_error" :>
      CodeEntry(Some(500), StaticMessage("Internal error"), Undefined,
                Undefined, Some(<<"core">>), DetUndefined))
  @@ ("misc.hidden" :>
      CodeEntry(Undefined, StaticMessage("Hidden by default"), Some(FALSE),
                Undefined, Undefined, DetUndefined))
  @@ ("ops.degraded" :> SeverityEntry)

(***************************************************************************)
(* Plugins: an ordered list of capability records; a hook that a plugin    *)
(* does not define is "absent".  Each hook is described by what it does    *)
(* when called.                                                            *)
(*   onUnknown   "null"      returns null                                  *)
(*               "undefined" returns undefined (no return statement)       *)
(*               "throw"     raises                                        *)
(*               "pair"      returns {code: 'core.internal_error',         *)
(*                                    details: {reason}}                   *)
(*               "badpair"   returns {code: 'nope'} (not in the registry)  *)
(*               "internalpair" returns {code: 'errata.unknown_error',     *)
(*                                    details: {reason}}                   *)
(*               "created"   returns ctx.create('auth.invalid_token',      *)
(*                                               {reason})                 *)
(*   onCreate    "ok" returns, "throw" raises                              *)
(*   onSerialize "same"   returns the payload it was given                 *)
(*               "throw"  raises                                           *)
(*               "tag"    returns the payload with one more tag            *)
(*               "reveal" returns the payload with details set from the    *)
(*                        error it was given                               *)
(*               "redact" returns the payload without its details key      *)
(*               "void"   returns nothing (undefined)                      *)
(*   "tag", "reveal" and "redact" read the payload they are given and so   *)
(*   raise a TypeError on a payload that is undefined                      *)
(***************************************************************************)
NoCodes == <<>>
PluginTestCodes ==
  "plugin.test_error" :>
      CodeEntry(Some(418), StaticMessage("I am a teapot"), Some(TRUE),
                Undefined, Undefined, DetUndefined)

Plugin(name, codes, onUnknown, onCreate, onSerialize) ==
  [name |-> name, codes |-> codes, onUnknown |-> onUnknown,
   onCreate |-> onCreate, onSerialize |-> onSerialize]

OnUnknownKinds == {"null", "undefined", "throw", "pair", "badpair", "created"}
OnCreateKinds == {"ok", "throw"}
OnSerializeKinds == {"same", "throw", "tag", "reveal", "redact"}

TestPlugin == Plugin("test-plugin", PluginTestCodes, "absent", "absent", "absent")
MapperPlugins ==
  {Plugin("mapper", NoCodes, k, "ok", "absent") : k \in OnUnknownKinds}
ObserverPlugins ==
  {Plugin("observer", NoCodes, "absent", k, "absent") : k \in OnCreateKinds}
AdapterPlugins ==
  {Plugin("adapter", NoCodes, "absent", "absent", k) : k \in OnSerializeKinds}

PluginLists(choices) ==
  UNION {[1..n -> choices] : n \in 0..MaxPlugins}

(***************************************************************************)
(* Construction options (ErrataOptions)                                    *)
(*   onUnknown "absent"      no global mapper                              *)
(*             "syntax"      err instanceof SyntaxError ? code : null      *)
(*             "unknowncode" returns a code that is not in the registry    *)
(*             "throw"       raises                                        *)
(***************************************************************************)
GlobalMapperKinds == {"absent", "syntax", "unknowncode", "throw"}
MappedCode == "core.internal_error"
UnregisteredCode == "nope"

(* what the caller passes to errata(): each default may be left out *)
ErrataOptions(pluginLists, mappers, statuses, exposes, retryables) ==
  [app : {Some("test-app")},
   env : {Some("test")},
   codes : {UserCodes},
   defaultStatus : statuses,
   defaultExpose : exposes,
   defaultRetryable : retryables,
   plugins : pluginLists,
   onUnknown : mappers]

(* errata(options): the parameter defaults of lines 198-200 replace the    *)
(* defaults the caller left out; supplied keeps what the caller passed     *)
errata(o) ==
  [app |-> o.app,
   env |-> o.env,
   codes |-> o.codes,
   defaultStatus |-> Coalesce(o.defaultStatus, Some(EngineDefaultStatus))[1],
   defaultExpose |-> Coalesce(o.defaultExpose, Some(FALSE))[1],
   defaultRetryable |-> Coalesce(o.defaultRetryable, Some(FALSE))[1],
   plugins |-> o.plugins,
   onUnknown |-> o.onUnknown,
   supplied |-> [defaultStatus |-> o.defaultStatus,
                 defaultExpose |-> o.defaultExpose,
                 defaultRetryable |-> o.defaultRetryable]]

(* engines built with defaultExpose given and the other defaults left out *)
Options(pluginLists, mappers, exposes) ==
  {errata(o) : o \in ErrataOptions(pluginLists, mappers, {Undefined},
                                   {Some(x) : x \in exposes}, {Undefined})}

(***************************************************************************)
(* define-codes.ts.  A value of the tree is a node: "config" an object     *)
(* with a message key (id names it), "object" an object without one,       *)
(* "value" anything that is not an object; entries are an object's own     *)
(* [key, value] pairs in Object.entries order.                             *)
(***************************************************************************)
Node(t, id, entries) == [t |-> t, id |-> id, entries |-> entries]
Entry(key, value) == [key |-> key, value |-> value]

(* !!value && typeof value === 'object' && 'message' in value *)
isCodeConfig(value) == value.t = "config"

(* prefix ? `${prefix}.${key}` : key *)
fullKey(prefix, key) == IF prefix # "" THEN prefix \o "." \o key ELSE key

(* the loop of flattenCodes over Object.entries(input), from entry i on *)
RECURSIVE flattenEntries(_, _, _, _)
flattenEntries(entries, i, prefix, result) ==
  IF i > Len(entries) THEN result
  ELSE IF isCodeConfig(entries[i].value)
       THEN flattenEntries(entries, i + 1, prefix,
              (fullKey(prefix, entries[i].key) :> entries[i].value.id) @@ result)
       ELSE IF entries[i].value.t = "object"
            THEN flattenEntries(entries, i + 1, prefix,
                   flattenEntries(entries[i].value.entries, 1,
                                  fullKey(prefix, entries[i].key), <<>>) @@ result)
            ELSE flattenEntries(entries, i + 1, prefix, result)

flattenCodes(tree, prefix) == flattenEntries(tree.entries, 1, prefix, <<>>)
defineCodes(tree) == flattenCodes(tree, "")

(* errata(): merge user codes with plugin codes, in plugin order; a later  *)
(* contributor overwrites an earlier one.                                  *)
(* the spread reversed: { ...plugin.codes, ...mergedCodes } *)
RECURSIVE MergeCodes_FirstWins(_, _, _)
MergeCodes_FirstWins(merged, plugins, i) ==
  IF i > Len(plugins) THEN merged
  ELSE MergeCodes_FirstWins(merged @@ plugins[i].codes, plugins, i + 1)

RECURSIVE MergeCodes(_, _, _)
MergeCodes(merged, plugins, i) ==
  IF i > Len(plugins) THEN merged
  ELSE MergeCodes(plugins[i].codes @@ merged, plugins, i + 1)

mergedCodes(E) == MergeCodes(E.codes, E.plugins, 1)

(* `code in mergedCodes`: own keys and the members of Object.prototype *)
ObjectPrototypeKeys == {"constructor", "toString", "valueOf", "hasOwnProperty"}
InObject(code, object) == code \in DOMAIN object \/ code \in ObjectPrototypeKeys

(* the console.warn calls of the merge loop: one for a plugin name seen    *)
(* before, one for each code of the plugin already in the accumulated map  *)
Warning(kind, plugin, code) == [kind |-> kind, plugin |-> plugin, code |-> code]
pluginWarnings(merged, names, plugins, i) ==
  (IF plugins[i].name \in names THEN {Warning("name", i, "")} ELSE {})
  \cup {Warning("code", i, c) : c \in {k \in DOMAIN plugins[i].codes : InObject(k, merged)}}

RECURSIVE MergeWarnings(_, _, _, _)
MergeWarnings(merged, names, plugins, i) ==
  IF i > Len(plugins) THEN {}
  ELSE pluginWarnings(merged, names, plugins, i)
       \cup MergeWarnings(plugins[i].codes @@ merged, names \cup {plugins[i].name},
                          plugins, i + 1)

(* the registry an engine holds once errata() has returned *)
Registry(built, codes, warnings) ==
  [built |-> built, codes |-> codes, warnings |-> warnings]
NoRegistry == Registry(FALSE, <<>>, {})
Constructed(E) ==
  Registry(TRUE, mergedCodes(E), MergeWarnings(E.codes, {}, E.plugins, 1))

(* mergedCodes[code]: a property read on a plain object, which also finds  *)
(* the members inherited from Object.prototype; none of those has any of   *)
(* the CodeEntry fields.                                                   *)
PrototypeMember ==
  CodeEntry(Undefined, NoMessage, Undefined, Undefined, Undefined, DetUndefined)

codeConfig(E, code) ==
  IF code \in DOMAIN mergedCodes(E) THEN Some(mergedCodes(E)[code])
  ELSE IF code \in ObjectPrototypeKeys THEN Some(PrototypeMember)
  ELSE Undefined

(***************************************************************************)
(* Results of calls: either a value or a raised exception, together with   *)
(* the calls made on the way (hooks and internal constructors).            *)
(***************************************************************************)
NoError ==
  [id |-> -1, app |-> Undefined, env |-> Undefined, code |-> "", message |-> "",
   status |-> 0, expose |-> FALSE, retryable |-> FALSE, logLevel |-> "",
   tags |-> <<>>, details |-> DetUndefined, cause |-> ""]
NoRecord == <<>>

Returned(ev, calls) ==
  [raised |-> FALSE, thrown |-> "", ev |-> ev, rec |-> NoRecord, calls |-> calls]
ReturnedRecord(rec, calls) ==
  [raised |-> FALSE, thrown |-> "", ev |-> NoError, rec |-> rec, calls |-> calls]
Raised(what, calls) ==
  [raised |-> TRUE, thrown |-> what, ev |-> NoError, rec |-> NoRecord, calls |-> calls]

(* one call: the function or hook, the plugin it belongs to (0: the engine *)
(* itself), how it ended, and the code of the Error Value or the name of   *)
(* the raw value it was about                                              *)
Call(fn, plugin, outcome, subject) ==
  [fn |-> fn, plugin |-> plugin, outcome |-> outcome, subject |-> subject]

(***************************************************************************)
(* errata-error.ts                                                         *)
(***************************************************************************)
(* resolveMessage: a string is used verbatim; a function is called with    *)
(* the details.  The function form is                                      *)
(*   ({ details }) => `Retry after ${details.retryAfter}s`                 *)
(* which raises a TypeError when details is undefined or null.             *)
resolveMessage(message, details) ==
  IF message.kind = "function"
  THEN IF details.t \in {"undefined", "null"}
       THEN [raised |-> TRUE, val |-> Undefined]
       ELSE IF details.t = "retryAfter"
            THEN [raised |-> FALSE,
                  val |-> Some(message.text \o ToString(details.n) \o "s")]
            ELSE [raised |-> FALSE, val |-> Some(message.text \o "undefineds")]
  ELSE IF message.kind = "static"
       THEN [raised |-> FALSE, val |-> Some(message.text)]
       ELSE [raised |-> FALSE, val |-> Undefined]

(* new ErrataError(args): super(args.message) turns an undefined message   *)
(* into the empty string.                                                  *)
Args(app, env, code, message, status, expose, retryable, logLevel, tags, details, cause) ==
  [app |-> app, env |-> env, code |-> code, message |-> message,
   status |-> status, expose |-> expose, retryable |-> retryable,
   logLevel |-> logLevel, tags |-> tags, details |-> details, cause |-> cause]

ErrataError(id, args) ==
  [id |-> id, app |-> args.app, env |-> args.env, code |-> args.code,
   message |-> IF args.message = Undefined THEN "" ELSE args.message[1],
   status |-> args.status, expose |-> args.expose,
   retryable |-> args.retryable, logLevel |-> args.logLevel,
   tags |-> args.tags, details |-> args.details, cause |-> args.cause]

(* ErrataError.toJSON *)
toJSON(e) ==
  [__brand |-> LIB_NAME, app |-> e.app, code |-> e.code,
   message |-> Some(e.message), status |-> Some(e.status),
   retryable |-> Some(e.retryable), logLevel |-> Some(e.logLevel),
   tags |-> Some(e.tags), details |-> e.details]

(* isSerializedError: an object carrying the exact brand value *)
isSerializedError(value) ==
  /\ value.kind = "object"
  /\ "__brand" \in DOMAIN value.rec
  /\ value.rec["__brand"] = LIB_NAME

(***************************************************************************)
(* errata.ts: the creation path                                            *)
(***************************************************************************)
(* the onCreate loop of createFn: every plugin that has the hook, in       *)
(* order, each call wrapped in try/catch                                   *)
(* the onCreate loop left at the first hook that raises *)
RECURSIVE RunOnCreate_StopOnThrow(_, _, _, _)
RunOnCreate_StopOnThrow(plugins, i, error, calls) ==
  IF i > Len(plugins) THEN calls
  ELSE IF plugins[i].onCreate = "absent"
       THEN RunOnCreate_StopOnThrow(plugins, i + 1, error, calls)
       ELSE IF plugins[i].onCreate = "throw"
            THEN Append(calls, Call("onCreate", i, "caught", error.code))
            ELSE RunOnCreate_StopOnThrow(plugins, i + 1, error,
                   Append(calls, Call("onCreate", i, "returned", error.code)))

RECURSIVE RunOnCreate(_, _, _, _)
RunOnCreate(plugins, i, error, calls) ==
  IF i > Len(plugins) THEN calls
  ELSE IF plugins[i].onCreate = "absent"
       THEN RunOnCreate(plugins, i + 1, error, calls)
       ELSE RunOnCreate(plugins, i + 1, error,
              Append(calls, Call("onCreate", i,
                IF plugins[i].onCreate = "throw" THEN "caught" ELSE "returned",
                error.code)))

(* createFn returning the new error without running any onCreate hook *)
createHooks_Unobserved(E, error) ==
  Returned(error, <<Call("create", 0, "constructed", error.code)>>)

(* lines 306-319: run the onCreate hooks, return the error *)
createHooks(E, error) ==
  Returned(error,
    RunOnCreate(E.plugins, 1, error,
                <<Call("create", 0, "constructed", error.code)>>))

(* createFn with the instance defaults consulted before the entry *)
createError_DefaultsFirst(E, code, entry, resolvedDetails, msg) ==
  IF msg.raised
  THEN Raised("TypeError", <<Call("create", 0, "threw", code)>>)
  ELSE createHooks(E,
         ErrataError(FreshId, Args(E.app, E.env, code, msg.val,
           Coalesce(Some(E.defaultStatus), entry.status)[1],
           Coalesce(Some(E.defaultExpose), entry.expose)[1],
           Coalesce(Some(E.defaultRetryable), entry.retryable)[1],
           Coalesce(Some(defaultLogLevel), entry.logLevel)[1],
           Coalesce(entry.tags, Some(<<>>))[1],
           resolvedDetails, "")))

(* lines 292-304: new ErrataError from the entry and the resolved message; *)
(* a message function that raises ends createFn                           *)
createError(E, code, entry, resolvedDetails, msg) ==
  IF msg.raised
  THEN Raised("TypeError", <<Call("create", 0, "threw", code)>>)
  ELSE createHooks(E,
         ErrataError(FreshId, Args(E.app, E.env, code, msg.val,
           Coalesce(entry.status, Some(E.defaultStatus))[1],
           Coalesce(entry.expose, Some(E.defaultExpose))[1],
           Coalesce(entry.retryable, Some(E.defaultRetryable))[1],
           Coalesce(entry.logLevel, Some(defaultLogLevel))[1],
           Coalesce(entry.tags, Some(<<>>))[1],
           resolvedDetails, "")))

(* line 296: the message is resolved on the resolved details *)
createResolved(E, code, entry, resolvedDetails) ==
  createError(E, code, entry, resolvedDetails,
              resolveMessage(entry.message, resolvedDetails))

(* createFn with the entry's default details taking precedence *)
createLookedUp_DefaultWins(E, code, cc, details) ==
  IF cc = Undefined
  THEN Raised("Unknown error code", <<Call("create", 0, "threw", code)>>)
  ELSE createResolved(E, code, cc[1],
         IF cc[1].details.t # "undefined" THEN cc[1].details ELSE details)

(* lines 284-290: unknown code, else explicit details or the entry's default *)
createLookedUp(E, code, cc, details) ==
  IF cc = Undefined
  THEN Raised("Unknown error code", <<Call("create", 0, "threw", code)>>)
  ELSE createResolved(E, code, cc[1],
         IF details.t = "undefined" THEN cc[1].details ELSE details)

createFn(E, code, details) ==
  createLookedUp(E, code, codeConfig(E, code), details)

(* the catch-all built with the instance's default exposure *)
createInternalError_DefaultExpose(E, code, raw, cause) ==
  Returned(
    ErrataError(FreshId,
      Args(E.app, E.env, code, Some(code), E.defaultStatus, E.defaultExpose,
           E.defaultRetryable, defaultLogLevel, <<>>, DetRaw(raw), cause)),
    <<Call("createInternalError", 0, "constructed", code)>>)

createInternalError(E, code, raw, cause) ==
  Returned(
    ErrataError(FreshId,
      Args(E.app, E.env, code, Some(code), E.defaultStatus, FALSE,
           E.defaultRetryable, defaultLogLevel, <<>>, DetRaw(raw), cause)),
    <<Call("createInternalError", 0, "constructed", code)>>)

(* internalCodeSet[code]: a property read on a plain object literal        *)
internalCodeSet(code) == code = UnknownErrorCode \/ code \in ObjectPrototypeKeys

(* the name under which a details payload is wrapped as an opaque raw      *)
NameOfDetails(details) ==
  IF details.t = "undefined" THEN "undefined"
  ELSE IF details.t = "null" THEN "null"
  ELSE IF details.t = "object" THEN "{" \o details.of \o "}"
  ELSE "{" \o details.t \o ":" \o details.of \o "}"

createBoundaryError(E, code, details, cause) ==
  IF internalCodeSet(code)
  THEN createInternalError(E, code,
         IF details.t = "raw" THEN details.of ELSE NameOfDetails(details), cause)
  ELSE createFn(E, code, details)

(***************************************************************************)
(* errata.ts: the serialization boundary                                   *)
(***************************************************************************)
Without(json, key) == [k \in DOMAIN json \ {key} |-> json[k]]
With(json, key, value) == (key :> value) @@ json

(* the value of `json` after a hook returned undefined *)
MissingPayload == [undefined |-> TRUE]

(* what a hook was handed: the code of the error, or "undefined" when the  *)
(* payload is missing                                                      *)
handed(json, err) == IF json = MissingPayload THEN "undefined" ELSE err.code

(* a hook call that ends in an exception *)
onSerializeRaises(kind, json) ==
  \/ kind = "throw"
  \/ json = MissingPayload /\ kind \in {"tag", "reveal", "redact"}

(* one onSerialize hook applied to a payload: the payload it returns *)
onSerializeHook(kind, json, err) ==
  IF kind = "void" THEN MissingPayload
  ELSE IF kind = "tag"
  THEN IF "tags" \in DOMAIN json /\ json["tags"] # Undefined
       THEN With(json, "tags", Some(Append(json["tags"][1], "adapted")))
       ELSE With(json, "tags", Some(<<"adapted">>))
  ELSE IF kind = "reveal" THEN With(json, "details", err.details)
  ELSE IF kind = "redact" THEN Without(json, "details")
  ELSE json

(* the onSerialize loop left at the first hook that raises *)
RECURSIVE RunOnSerialize_StopOnThrow(_, _, _, _, _)
RunOnSerialize_StopOnThrow(plugins, i, json, err, calls) ==
  IF i > Len(plugins) THEN ReturnedRecord(json, calls)
  ELSE IF plugins[i].onSerialize = "absent"
       THEN RunOnSerialize_StopOnThrow(plugins, i + 1, json, err, calls)
       ELSE IF plugins[i].onSerialize = "throw"
            THEN ReturnedRecord(json,
                   Append(calls, Call("onSerialize", i, "caught", err.code)))
            ELSE RunOnSerialize_StopOnThrow(plugins, i + 1,
                   onSerializeHook(plugins[i].onSerialize, json, err), err,
                   Append(calls, Call("onSerialize", i, "returned", err.code)))

(* lines 349-359: the chain of onSerialize hooks; json is assigned what    *)
(* the hook returned, whatever it is                                       *)
RECURSIVE RunOnSerialize(_, _, _, _, _)
RunOnSerialize(plugins, i, json, err, calls) ==
  IF i > Len(plugins) THEN ReturnedRecord(json, calls)
  ELSE IF plugins[i].onSerialize = "absent"
       THEN RunOnSerialize(plugins, i + 1, json, err, calls)
       ELSE IF onSerializeRaises(plugins[i].onSerialize, json)
            THEN RunOnSerialize(plugins, i + 1, json, err,
                   Append(calls, Call("onSerialize", i, "caught", handed(json, err))))
            ELSE RunOnSerialize(plugins, i + 1,
                   onSerializeHook(plugins[i].onSerialize, json, err), err,
                   Append(calls, Call("onSerialize", i, "returned", handed(json, err))))

serialize(E, err) ==
  LET base == toJSON(err)
      json == IF ~err.expose THEN Without(base, "details") ELSE base
  IN RunOnSerialize(E.plugins, 1, json, err, <<>>)

(* payload.key, undefined when the payload does not own the key *)
Field(payload, key) ==
  IF key \in DOMAIN payload THEN payload[key] ELSE Undefined

(* payload.details never read *)
DetailsField_Dropped(payload) == DetUndefined
DetailsField(payload) ==
  IF "details" \in DOMAIN payload THEN payload["details"] ELSE DetUndefined

(* no code is taken for the reserved one *)
isInternalCode_Never(code) == FALSE

(* line 369: internalCodeSet[payload.code] === true, which no inherited    *)
(* member satisfies                                                        *)
isInternalCode(code) == code = UnknownErrorCode

(* lines 377-390: record field, else entry field, else instance default *)
deserializeError(E, payload, cc, message) ==
  LET isInternal == isInternalCode(payload["code"])
      ccField(f) == IF cc = Undefined THEN Undefined ELSE cc[1][f]
  IN IF message.raised
     THEN Raised("TypeError", <<Call("deserialize", 0, "threw", payload["code"])>>)
     ELSE Returned(
            ErrataError(FreshId, Args(
              Coalesce(Field(payload, "app"), E.app),
              Undefined,
              payload["code"],
              message.val,
              Coalesce(Field(payload, "status"),
                Coalesce(ccField("status"), Some(E.defaultStatus)))[1],
              IF isInternal THEN FALSE
              ELSE Coalesce(ccField("expose"), Some(E.defaultExpose))[1],
              Coalesce(Field(payload, "retryable"),
                Coalesce(ccField("retryable"), Some(E.defaultRetryable)))[1],
              Coalesce(Field(payload, "logLevel"),
                Coalesce(ccField("logLevel"), Some(defaultLogLevel)))[1],
              IF isInternal THEN <<>>
              ELSE Coalesce(Field(payload, "tags"),
                     Coalesce(ccField("tags"), Some(<<>>)))[1],
              DetailsField(payload), "")),
            <<Call("deserialize", 0, "constructed", payload["code"])>>)

(* the entry's message consulted before the record's *)
deserializeMessage_EntryFirst(E, payload, cc) ==
  IF cc # Undefined
  THEN resolveMessage(cc[1].message, DetailsField(payload))
  ELSE IF Field(payload, "message") # Undefined
       THEN [raised |-> FALSE, val |-> Field(payload, "message")]
       ELSE [raised |-> FALSE, val |-> Some(payload["code"])]

(* lines 371-375: payload.message ?? (entry message on payload.details, or *)
(* the bare code); the right operand is evaluated only when needed         *)
deserializeMessage(E, payload, cc) ==
  IF Field(payload, "message") # Undefined
  THEN [raised |-> FALSE, val |-> Field(payload, "message")]
  ELSE IF cc # Undefined
       THEN resolveMessage(cc[1].message, DetailsField(payload))
       ELSE [raised |-> FALSE, val |-> Some(payload["code"])]

deserializeLookedUp(E, payload, cc) ==
  deserializeError(E, payload, cc, deserializeMessage(E, payload, cc))

deserialize(E, payload) ==
  deserializeLookedUp(E, payload, codeConfig(E, payload["code"]))

(***************************************************************************)
(* errata.ts: the normalization path                                       *)
(***************************************************************************)
(* Raw values handed to ensure.  kind is what `instanceof` and `typeof`    *)
(* see, name identifies the value, rec holds the keys of a plain object.   *)
Raw(kind, name, rec, ev) == [kind |-> kind, name |-> name, rec |-> rec, ev |-> ev]
RawNull == Raw("null", "null", <<>>, NoError)
RawString == Raw("primitive", "boom", <<>>, NoError)
RawError == Raw("error", "Error", <<>>, NoError)
RawSyntaxError == Raw("error", "SyntaxError", <<>>, NoError)
RawRecord(name, rec) == Raw("object", name, rec, NoError)
RawErrata(ev) == Raw("errata", "ErrataError", <<>>, ev)

Prefixed(calls, res) == [res EXCEPT !.calls = calls \o @]
Stage(done, res) == [done |-> done, res |-> res]
Pass(calls) == Stage(FALSE, Returned(NoError, calls))

(* the engine-level onUnknown option: its return value for a raw value *)
globalOnUnknown(kind, err) ==
  IF kind = "syntax"
  THEN [raised |-> FALSE,
        val |-> IF err.name = "SyntaxError" THEN Some(MappedCode) ELSE Undefined]
  ELSE IF kind = "unknowncode"
       THEN [raised |-> FALSE, val |-> Some(UnregisteredCode)]
       ELSE [raised |-> TRUE, val |-> Undefined]

(* the catch of a try block around a creation: a raise is a pass-through *)
Caught(r) == IF r.raised THEN Pass(r.calls) ELSE Stage(TRUE, r)

(* the mapped code created with { cause: err }, as the fallback code is *)
GlobalMapped_Cause(E, err, mapped) ==
  IF mapped.raised THEN Pass(<<Call("onUnknown", 0, "caught", err.name)>>)
  ELSE IF mapped.val = Undefined
       THEN Pass(<<Call("onUnknown", 0, "returned", err.name)>>)
       ELSE Caught(Prefixed(<<Call("onUnknown", 0, "returned", err.name)>>,
                            createFn(E, mapped.val[1], DetCause(err.name))))

(* lines 406-409 *)
GlobalMapped(E, err, mapped) ==
  IF mapped.raised THEN Pass(<<Call("onUnknown", 0, "caught", err.name)>>)
  ELSE IF mapped.val = Undefined
       THEN Pass(<<Call("onUnknown", 0, "returned", err.name)>>)
       ELSE Caught(Prefixed(<<Call("onUnknown", 0, "returned", err.name)>>,
                            createFn(E, mapped.val[1], DetRaw(err.name))))

(* lines 403-414: the whole block is inside one try/catch *)
GlobalStage(E, err) ==
  IF E.onUnknown = "absent" THEN Pass(<<>>)
  ELSE GlobalMapped(E, err, globalOnUnknown(E.onUnknown, err))

(* a hook that returns ctx.create(...): a raise in create is a raise of    *)
(* the hook                                                                *)
HookCreated(i, err, r) ==
  IF r.raised
  THEN Pass(<<Call("onUnknown", i, "caught", err.name)>> \o r.calls)
  ELSE Stage(TRUE, Prefixed(<<Call("onUnknown", i, "returned", err.name)>>, r))

(* the code of the { code, details } pair a hook returns: a registered     *)
(* code, the engine's internal code, or a code that is not registered      *)
pairCode(kind) ==
  IF kind = "pair" THEN "core.internal_error"
  ELSE IF kind = "internalpair" THEN UnknownErrorCode
  ELSE UnregisteredCode

(* lines 421-428: a hook that returned, and what ensure makes of its       *)
(* result; reading result.code of undefined raises inside the try          *)
PluginReturned(E, kind, i, err) ==
  IF kind \in {"null", "undefined"}
  THEN Pass(<<Call("onUnknown", i, "returned", err.name)>>)
  ELSE IF kind = "created"
       THEN HookCreated(i, err, createFn(E, "auth.invalid_token", DetReason))
  ELSE Caught(Prefixed(<<Call("onUnknown", i, "returned", err.name)>>,
                createBoundaryError(E, pairCode(kind), DetReason, "")))

(* an onUnknown hook whose exception leaves ensure: no try/catch around it *)
PluginOnUnknown_Uncaught(E, kind, i, err) ==
  IF kind = "throw"
  THEN Stage(TRUE, Raised("hook", <<Call("onUnknown", i, "threw", err.name)>>))
  ELSE PluginReturned(E, kind, i, err)

(* lines 419-432: one plugin's onUnknown hook; the hook call and the use   *)
(* of its result are inside one try/catch                                  *)
PluginOnUnknown(E, kind, i, err) ==
  IF kind = "throw"
  THEN Pass(<<Call("onUnknown", i, "caught", err.name)>>)
  ELSE PluginReturned(E, kind, i, err)

(* lines 416-434 *)
RECURSIVE PluginStage(_, _, _, _)
RECURSIVE PluginResult(_, _, _, _, _)
PluginStage(E, err, i, calls) ==
  IF i > Len(E.plugins) THEN Pass(calls)
  ELSE IF E.plugins[i].onUnknown = "absent"
       THEN PluginStage(E, err, i + 1, calls)
       ELSE PluginResult(E, err, i, calls,
              PluginOnUnknown(E, E.plugins[i].onUnknown, i, err))

(* lines 422-428, 430-432: return on a usable result, else the next plugin *)
PluginResult(E, err, i, calls, s) ==
  IF s.done THEN Stage(TRUE, Prefixed(calls, s.res))
  ELSE PluginStage(E, err, i + 1, calls \o s.res.calls)

(* the last stages with the fallback code consulted before the brand *)
LastStages_FallbackFirst(E, err, fallback) ==
  IF fallback # Undefined
  THEN createBoundaryError(E, fallback[1], DetCause(err.name), "")
  ELSE IF isSerializedError(err) THEN deserialize(E, err.rec)
       ELSE createInternalError(E, UnknownErrorCode, err.name, err.name)

(* lines 436-445: serialized record, then fallback code, then catch-all *)
LastStages(E, err, fallback) ==
  IF isSerializedError(err) THEN deserialize(E, err.rec)
  ELSE IF fallback # Undefined
       THEN createBoundaryError(E, fallback[1], DetCause(err.name), "")
       ELSE createInternalError(E, UnknownErrorCode, err.name, err.name)

(* lines 436-445 after the plugin loop *)
AfterPlugins(E, err, fallback, b) ==
  IF b.done THEN b.res
  ELSE Prefixed(b.res.calls, LastStages(E, err, fallback))

(* lines 416-445 after the global mapper *)
AfterGlobal(E, err, fallback, a) ==
  IF a.done THEN a.res
  ELSE AfterPlugins(E, err, fallback, PluginStage(E, err, 1, a.res.calls))

(* lines 403-445: what ensure does with a value that is not an ErrataError *)
Normalize(E, err, fallback) ==
  AfterGlobal(E, err, fallback, GlobalStage(E, err))

(* ensureFn without the instanceof shortcut of lines 399-401 *)
ensureFn_NoShortcut(E, err, fallback) == Normalize(E, err, fallback)

ensureFn(E, err, fallback) ==
  IF err.kind = "errata" THEN Returned(err.ev, <<>>)
  ELSE Normalize(E, err, fallback)

(***************************************************************************)
(* Pattern matching utilities (utils/pattern-matching.ts).  A string is a  *)
(* sequence of characters.                                                 *)
(***************************************************************************)
endsWith(str, suffix) ==
  /\ Len(suffix) <= Len(str)
  /\ SubSeq(str, Len(str) - Len(suffix) + 1, Len(str)) = suffix
startsWith(str, prefix) ==
  /\ Len(prefix) <= Len(str)
  /\ SubSeq(str, 1, Len(prefix)) = prefix

isWildcardPattern(pattern) == endsWith(pattern, <<".", "*">>)

(* pattern.slice(0, -1) *)
getWildcardPrefix(pattern) == SubSeq(pattern, 1, Len(pattern) - 1)

(* the prefix without its dot: pattern.slice(0, -2) *)
matchesPattern_DotDropped(code, pattern) ==
  IF isWildcardPattern(pattern)
  THEN startsWith(code, SubSeq(pattern, 1, Len(pattern) - 2))
  ELSE code = pattern

matchesPattern(code, pattern) ==
  IF isWildcardPattern(pattern)
  THEN startsWith(code, getWildcardPrefix(pattern))
  ELSE code = pattern

(* Array.prototype.sort((a, b) => b.length - a.length): stable, longest    *)
(* first                                                                   *)
RECURSIVE InsertByLength(_, _)
InsertByLength(x, sorted) ==
  IF sorted = <<>> THEN <<x>>
  ELSE IF Len(Head(sorted)) >= Len(x)
       THEN <<Head(sorted)>> \o InsertByLength(x, Tail(sorted))
       ELSE <<x>> \o sorted

(* the list left in the order it was given *)
SortByLength_AsListed(list) == list

RECURSIVE SortByLength(_)
SortByLength(list) ==
  IF list = <<>> THEN <<>>
  ELSE InsertByLength(list[Len(list)], SortByLength(SubSeq(list, 1, Len(list) - 1)))

includes(list, x) == \E i \in DOMAIN list : list[i] = x

(* the comparator reversed: the shortest matching wildcard first *)
reversed(list) == [i \in 1..Len(list) |-> list[Len(list) + 1 - i]]
matchingWildcards_ShortestFirst(code, patterns) ==
  reversed(SortByLength(SelectSeq(patterns,
    LAMBDA q : isWildcardPattern(q) /\ matchesPattern(code, q))))

matchingWildcards(code, patterns) ==
  SortByLength(SelectSeq(patterns,
     LAMBDA q : isWildcardPattern(q) /\ matchesPattern(code, q)))

(* the first matching wildcard as listed, without the sort *)
findBestMatchingPattern_Unsorted(code, patterns) ==
  IF includes(patterns, code) THEN Some(code)
  ELSE IF SelectSeq(patterns,
            LAMBDA q : isWildcardPattern(q) /\ matchesPattern(code, q)) = <<>>
       THEN Undefined
       ELSE Some(Head(SelectSeq(patterns,
              LAMBDA q : isWildcardPattern(q) /\ matchesPattern(code, q))))

findBestMatchingPattern(code, patterns) ==
  IF includes(patterns, code) THEN Some(code)
  ELSE IF matchingWildcards(code, patterns) = <<>> THEN Undefined
       ELSE Some(Head(matchingWildcards(code, patterns)))

(* codes and handler keys of the tests, as character sequences *)
AuthInvalidToken ==
  <<"a","u","t","h",".","i","n","v","a","l","i","d","_","t","o","k","e","n">>
AuthRateLimited ==
  <<"a","u","t","h",".","r","a","t","e","_","l","i","m","i","t","e","d">>
BillingPaymentFailed ==
  <<"b","i","l","l","i","n","g",".","p","a","y","m","e","n","t","_","f","a","i","l","e","d">>
AuthWildcard == <<"a","u","t","h",".","*">>
DefaultKey == <<"d","e","f","a","u","l","t">>
BillingWildcard == <<"b","i","l","l","i","n","g",".","*">>
EmptyKey == <<>>

(* the characters of a code string *)
Chars(code) ==
  CASE code = "auth.invalid_token" -> AuthInvalidToken
    [] code = "billing.retry_later" ->
         <<"b","i","l","l","i","n","g",".","r","e","t","r","y","_","l","a","t","e","r">>
    [] code = "core.internal_error" ->
         <<"c","o","r","e",".","i","n","t","e","r","n","a","l","_","e","r","r","o","r">>
    [] code = "misc.hidden" -> <<"m","i","s","c",".","h","i","d","d","e","n">>
    [] code = "ops.degraded" -> <<"o","p","s",".","d","e","g","r","a","d","e","d">>
    [] code = "plugin.test_error" ->
         <<"p","l","u","g","i","n",".","t","e","s","t","_","e","r","r","o","r">>
    [] code = "errata.unknown_error" ->
         <<"e","r","r","a","t","a",".","u","n","k","n","o","w","n","_","e","r","r","o","r">>
    [] code = "constructor" -> <<"c","o","n","s","t","r","u","c","t","o","r">>
    [] code = "nope" -> <<"n","o","p","e">>
    [] code = "" -> <<>>

(***************************************************************************)
(* errata.ts: http.from                                                    *)
(***************************************************************************)
(* { status: normalized.status, body: { error: serialize(normalized) } }:  *)
(* the result keeps the normalized Error Value (its status is the HTTP     *)
(* status) and carries the serialized record as the body's error           *)
httpResponse(normalized, body) ==
  [normalized EXCEPT !.rec = body.rec, !.calls = @ \o body.calls]

httpBody(E, normalized) ==
  IF normalized.raised THEN normalized
  ELSE httpResponse(normalized, serialize(E, normalized.ev))

httpFrom(E, err, fallback) == httpBody(E, ensureFn(E, err, fallback))

(***************************************************************************)
(* errata.ts: match                                                        *)
(***************************************************************************)
(* Object.keys(handlers).filter(k => k !== 'default') *)
handlerKeys(keys) == SelectSeq(keys, LAMBDA k : k # DefaultKey)

(* the truthiness test of `matchedPattern ? ... : ...`: undefined and the  *)
(* empty string are falsy                                                  *)
Truthy(matchedPattern) == matchedPattern # Undefined /\ matchedPattern[1] # <<>>

(* the handler that match calls: handlers[matchedPattern] when the matched *)
(* pattern is truthy, else handlers.default; <<>> when that is undefined   *)
handlerOf(keys, matchedPattern) ==
  IF Truthy(matchedPattern) THEN matchedPattern
  ELSE IF includes(keys, DefaultKey) THEN Some(DefaultKey) ELSE Undefined

(* err instanceof ErrataError ? err : ensure(err) *)
matchSubject(E, err) ==
  IF err.kind = "errata" THEN Returned(err.ev, <<>>)
  ELSE ensureFn(E, err, Undefined)

(* the rest of match once the subject is there; nothing of it runs when    *)
(* ensure raised                                                           *)
matchAnswer(q, r) ==
  IF r.raised THEN q
  ELSE [q EXCEPT
          !.done = TRUE,
          !.code = Chars(r.ev.code),
          !.best = findBestMatchingPattern(Chars(r.ev.code), handlerKeys(q.patterns)),
          !.handler = handlerOf(q.patterns,
                        findBestMatchingPattern(Chars(r.ev.code), handlerKeys(q.patterns)))]

(***************************************************************************)
(* client.ts: createErrorClient and its deserialize.  A client plugin's    *)
(* hooks are described by what they do when called:                        *)
(*   onDeserialize "null"      returns null                                *)
(*                 "undefined" returns undefined (no return statement)     *)
(*                 "throw"     raises                                      *)
(*                 "error"     returns an ErrataClientError it built       *)
(*   onCreate      "ok" returns, "throw" raises                            *)
(* The client's onUnknown option is "absent", "maps" (returns a code),     *)
(* "null" or "throw".                                                      *)
(***************************************************************************)
ClientPlugin(name, onDeserialize, onCreate) ==
  [name |-> name, onDeserialize |-> onDeserialize, onCreate |-> onCreate]
OnDeserializeKinds == {"null", "undefined", "throw", "error"}
ClientOnUnknownKinds == {"absent", "maps", "null", "throw"}
AdaptedCode == "plugin.adapted"

(* what deserialize returns: an ErrataClientError, or undefined; by is the *)
(* plugin whose hook built it, 0 for the client itself                     *)
ClientError(by, code, message, details) ==
  [kind |-> "error", by |-> by, code |-> code, message |-> message,
   details |-> details]
NoClientError == [ClientError(0, "", Undefined, DetUndefined) EXCEPT !.kind = "undefined"]

(* how a call of the client ended *)
ClientResult(raised, value, calls) ==
  [raised |-> raised, value |-> value, calls |-> calls]

(* plugin.onDeserialize(payload, ctx) *)
onDeserializeHook(kind, i) ==
  IF kind = "error" THEN ClientError(i, AdaptedCode, Some("adapted"), DetUndefined)
  ELSE NoClientError

(* runOnCreateHooks: every plugin that has the hook, each in try/catch *)
RECURSIVE runOnCreateHooks(_, _, _, _)
runOnCreateHooks(plugins, i, error, calls) ==
  IF i > Len(plugins) THEN calls
  ELSE IF plugins[i].onCreate = "absent"
       THEN runOnCreateHooks(plugins, i + 1, error, calls)
       ELSE runOnCreateHooks(plugins, i + 1, error,
              Append(calls, Call("onCreate", i,
                                 IF plugins[i].onCreate = "throw" THEN "caught" ELSE "returned",
                                 error.code)))

(* internal(code, raw) *)
internal(code, raw) == ClientError(0, code, Some(code), DetRaw(raw.name))

(* new ErrataClientError(payload) for a payload whose code is a string *)
fromPayload(rec) ==
  ClientError(0, rec["code"],
              IF "message" \in DOMAIN rec THEN rec["message"] ELSE Undefined,
              IF "details" \in DOMAIN rec THEN rec["details"] ELSE DetUndefined)

(* the two onUnknown branches of the standard logic: the mapper is called  *)
(* outside any try block                                                   *)
clientOnUnknown(C, payload, calls) ==
  IF C.onUnknown = "throw"
  THEN ClientResult(TRUE, NoClientError,
                    Append(calls, Call("onUnknown", 0, "raised", payload.name)))
  ELSE IF C.onUnknown = "maps"
       THEN ClientResult(FALSE,
              ClientError(0, MappedCode, Some(MappedCode), Det("payload", 0, payload.name)),
              runOnCreateHooks(C.plugins, 1,
                 ClientError(0, MappedCode, Some(MappedCode), Det("payload", 0, payload.name)),
                 Append(calls, Call("onUnknown", 0, "returned", payload.name))))
       ELSE ClientResult(FALSE, internal(UnknownErrorCode, payload),
              runOnCreateHooks(C.plugins, 1, internal(UnknownErrorCode, payload),
                 Append(calls, Call("onUnknown", 0, "returned", payload.name))))

(* the standard deserialization logic *)
standardDeserialize(C, payload, calls) ==
  IF payload.kind = "object" /\ "code" \in DOMAIN payload.rec
  THEN ClientResult(FALSE, fromPayload(payload.rec),
                    runOnCreateHooks(C.plugins, 1, fromPayload(payload.rec), calls))
  ELSE IF C.onUnknown # "absent" THEN clientOnUnknown(C, payload, calls)
  ELSE ClientResult(FALSE, internal(UnknownErrorCode, payload),
                    runOnCreateHooks(C.plugins, 1, internal(UnknownErrorCode, payload), calls))

(* `result != null`: undefined passes for null *)
isResult_Nullish(kind) == kind = "error"

(* `result !== null` *)
isResult(kind) == kind \in {"undefined", "error"}

(* the onDeserialize loop, from plugin i on, then the standard logic *)
RECURSIVE clientDeserializeFrom(_, _, _, _)
clientDeserializeFrom(C, payload, i, calls) ==
  IF i > Len(C.plugins) THEN standardDeserialize(C, payload, calls)
  ELSE IF C.plugins[i].onDeserialize = "absent"
       THEN clientDeserializeFrom(C, payload, i + 1, calls)
       ELSE IF C.plugins[i].onDeserialize = "throw"
            THEN clientDeserializeFrom(C, payload, i + 1,
                   Append(calls, Call("onDeserialize", i, "caught", payload.name)))
            ELSE IF isResult(C.plugins[i].onDeserialize)
                 THEN ClientResult(FALSE, onDeserializeHook(C.plugins[i].onDeserialize, i),
                        runOnCreateHooks(C.plugins, 1,
                           onDeserializeHook(C.plugins[i].onDeserialize, i),
                           Append(calls, Call("onDeserialize", i, "returned", payload.name))))
                 ELSE clientDeserializeFrom(C, payload, i + 1,
                        Append(calls, Call("onDeserialize", i, "returned", payload.name)))

clientDeserialize(C, payload) == clientDeserializeFrom(C, payload, 1, <<>>)

(***************************************************************************)
(* The callers' inputs                                                     *)
(***************************************************************************)
Codes == DOMAIN UserCodes \cup DOMAIN PluginTestCodes
          \cup {UnregisteredCode, "constructor", UnknownErrorCode}
DetailsArgs == {DetUndefined, DetNull, DetRetryAfter(10), DetReason}
Fallbacks == {Undefined, Some("core.internal_error"), Some(UnknownErrorCode),
              Some(UnregisteredCode), Some("constructor")}

Branded(code) == ("__brand" :> LIB_NAME) @@ ("code" :> code)
ForgedRecords ==
  { Branded("auth.invalid_token") @@ ("message" :> Some("forged"))
      @@ ("status" :> Some(418)) @@ ("details" :> DetReason),
    Branded("billing.retry_later"),
    Branded("billing.retry_later") @@ ("details" :> DetRetryAfter(10)),
    Branded(UnknownErrorCode) @@ ("message" :> Some("forged"))
      @@ ("tags" :> Some(<<"admin">>)) @@ ("details" :> DetReason)
      @@ ("expose" :> Some(TRUE)),
    Branded("billing.retry_later") @@ ("message" :> Some("Retry later")),
    Branded("misc.hidden") @@ ("message" :> Some("forged"))
      @@ ("expose" :> Some(TRUE)) @@ ("details" :> DetReason),
    Branded(UnregisteredCode),
    Branded("constructor") }
UnbrandedRecords ==
  { <<>>,
    ("__brand" :> "better-errors") @@ ("code" :> "auth.invalid_token") }

RawValues ==
  {RawNull, RawString, RawError, RawSyntaxError}
  \cup {RawRecord("forged", r) : r \in ForgedRecords}
  \cup {RawRecord("plain", r) : r \in UnbrandedRecords}

(* an ErrataError the caller got from an earlier create *)
HeldError ==
  ErrataError(0, Args(Some("test-app"), Some("test"), "auth.invalid_token",
                      Some("Invalid token"), 401, TRUE, FALSE, defaultLogLevel,
                      <<"auth", "security">>, DetUndefined, ""))

CallInput(name, code, details, raw, fallback) ==
  [op |-> name, code |-> code, details |-> details, raw |-> raw,
   fallback |-> fallback]
NoInput == CallInput("none", "", DetUndefined, RawNull, Undefined)

CreateInputs ==
  {CallInput("create", c, d, RawNull, Undefined) : c \in Codes, d \in DetailsArgs}
EnsureInputs ==
  {CallInput("ensure", "", DetUndefined, v, f) : v \in RawValues, f \in Fallbacks}
DeserializeInputs ==
  {CallInput("deserialize", "", DetUndefined, RawRecord("forged", r), Undefined) :
     r \in ForgedRecords}
SafeKinds ==
  {"promise-resolved", "promise-rejected", "thunk-returns", "thunk-throws",
   "thunk-async-resolves", "thunk-async-rejects"}
SafeInputs ==
  {CallInput("safe", k, DetUndefined, v, Undefined) :
     k \in SafeKinds, v \in RawValues \cup {RawErrata(HeldError)}}
(* what match is handed: a caught value, an Error Value, or a record whose *)
(* code is the empty string                                                *)
MatchValues ==
  RawValues \cup {RawErrata(HeldError),
                  RawRecord("forged", Branded("") @@ ("message" :> Some("forged")))}
MatchInputs ==
  {CallInput("match", "", DetUndefined, v, Undefined) : v \in MatchValues}
Inputs == CreateInputs \cup EnsureInputs \cup DeserializeInputs \cup SafeInputs

(***************************************************************************)
(* The state machine.  The engine keeps no state between calls (registry   *)
(* and plugin list are read-only after construction), so a behaviour is:   *)
(* construction, one call on a caller-supplied input, then calls on what   *)
(* the previous call returned (the Error Value it produced, or the record  *)
(* in flight).                                                             *)
(*   engine  the construction options                                      *)
(*   input   the caller-supplied input of the first call                   *)
(*   op      the last call made ("none" before the first)                  *)
(*   arg     the arguments of the last call                                *)
(*   out     what the last call returned or raised, and the calls it made  *)
(*   origin  the record a deserialized Error Value was rebuilt from, and   *)
(*           the Error Value that record was serialized from               *)
(*   steps   number of times a value crossed the serialization boundary    *)
(***************************************************************************)
NoOrigin == [set |-> FALSE, rec |-> NoRecord, ev |-> NoError]
Held(ev) == [ev EXCEPT !.id = 0]

(* A question put to the pattern matcher and its answer.                   *)
(*   asked    "none", "matches" (matchesPattern(code, patterns[1])),       *)
(*            "best" (findBestMatchingPattern(code, patterns)),            *)
(*            "match" (errors.match with patterns as the handler keys)     *)
(*   done     whether the call has returned; hit is the boolean result,    *)
(*            best the pattern returned (<<>> for undefined), handler the  *)
(*            key of the handler that match invoked (<<>> for none)        *)
Question(asked, code, patterns) ==
  [asked |-> asked, code |-> code, patterns |-> patterns, done |-> FALSE,
   hit |-> FALSE, best |-> Undefined, handler |-> Undefined]
NoMatch == Question("none", <<>>, <<>>)

(* The promise that safe awaits and the promise that safe returns.         *)
(*   phase   "idle", "awaiting" (safe is suspended at its await),          *)
(*           "settled" (safe's promise fulfilled with the tuple),          *)
(*           "rejected" (safe's promise rejected)                          *)
(*   fulfils whether the awaited promise fulfils, value what it fulfils or *)
(*           rejects with; data and error are the two tuple positions,     *)
(*           <<>> and NoError standing for null                            *)
Task(phase, fulfils, value, data, error) ==
  [phase |-> phase, fulfils |-> fulfils, value |-> value, data |-> data,
   error |-> error]
NoTask == Task("idle", FALSE, RawNull, Undefined, NoError)

(* The tree handed to defineCodes and, once it has returned, the map it    *)
(* returned: from dot-joined path to the id of the config stored there.    *)
Flat(tree, done, codes) == [tree |-> tree, done |-> done, codes |-> codes]
NoTree == Flat(Node("object", "", <<>>), FALSE, <<>>)

(* The client: its options and, once its deserialize has been called, how *)
(* the call ended.                                                         *)
Client(plugins, onUnknown) ==
  [plugins |-> plugins, onUnknown |-> onUnknown, done |-> FALSE,
   res |-> ClientResult(FALSE, NoClientError, <<>>)]
NoClient == Client(<<>>, "absent")

(* The engine calls in progress, innermost last, when a call is followed   *)
(* hook by hook.  A frame is a call of createFn or ensureFn:               *)
(*   pc    the plugin whose hook is next (0: ensure's global mapper)       *)
(*   wait  the frame is suspended in a call made from stage pc             *)
(* created and unknown count the onCreate and the plugin onUnknown hooks   *)
(* invoked so far; done says that the outermost call has returned.         *)
Frame(fn, pc, wait) == [fn |-> fn, pc |-> pc, wait |-> wait]
Nest(stack, created, unknown, done) ==
  [stack |-> stack, created |-> created, unknown |-> unknown, done |-> done]
NoNest == Nest(<<>>, 0, 0, FALSE)

InitWith(options, inputs) ==
  /\ engine \in options
  /\ input \in inputs
  /\ op = "none"
  /\ arg = NoInput
  /\ out = Returned(NoError, <<>>)
  /\ origin = NoOrigin
  /\ steps = 0
  /\ task = NoTask
  /\ matched = NoMatch
  /\ registry = Constructed(engine)
  /\ flat = NoTree
  /\ client = NoClient
  /\ nest = NoNest

HasError == op # "none" /\ ~out.raised /\ out.ev # NoError
HasRecord == op # "none" /\ ~out.raised /\ out.rec # NoRecord

Called(name, a, r) ==
  /\ op' = name
  /\ arg' = a
  /\ out' = r
  /\ UNCHANGED <<engine, input, task, matched, aux>>

(* errors.create(code, details?) *)
Create ==
  /\ op = "none" /\ input.op = "create"
  /\ Called("create", input, createFn(engine, input.code, input.details))
  /\ UNCHANGED <<origin, steps>>

(* errors.ensure(value, fallbackCode?) on a value that the caller caught *)
Ensure ==
  /\ op = "none" /\ input.op = "ensure"
  /\ Called("ensure", input, ensureFn(engine, input.raw, input.fallback))
  /\ UNCHANGED <<origin, steps>>

(* errors.ensure(e, fallbackCode?) on the Error Value the caller holds *)
EnsureExisting ==
  /\ HasError
  /\ \E f \in Fallbacks :
       Called("ensure",
              CallInput("ensure", "", DetUndefined, RawErrata(Held(out.ev)), f),
              ensureFn(engine, RawErrata(Held(out.ev)), f))
  /\ UNCHANGED <<origin, steps>>

(* errors.serialize(e) on the Error Value the caller holds *)
Serialize ==
  /\ HasError /\ steps < MaxCrossings
  /\ Called("serialize",
            CallInput("serialize", "", DetUndefined, RawErrata(Held(out.ev)), Undefined),
            serialize(engine, Held(out.ev)))
  /\ steps' = steps + 1
  /\ UNCHANGED origin

(* errors.deserialize(json) on a caller-supplied record *)
DeserializeInput ==
  /\ op = "none" /\ input.op = "deserialize"
  /\ Called("deserialize", input, deserialize(engine, input.raw.rec))
  /\ UNCHANGED <<origin, steps>>

(* errors.deserialize(json) on the record the last serialize returned *)
DeserializeWire ==
  /\ HasRecord /\ op = "serialize" /\ steps < MaxCrossings
  /\ Called("deserialize",
            CallInput("deserialize", "", DetUndefined,
                      RawRecord("wire", out.rec), Undefined),
            deserialize(engine, out.rec))
  /\ steps' = steps + 1
  /\ origin' = [set |-> TRUE, rec |-> out.rec, ev |-> arg.raw.ev]

(* errors.safe(input), up to the await: a function input is called inside  *)
(* a new Promise, so a synchronous throw becomes a rejection and a         *)
(* returned promise is adopted; a promise input is awaited as it is        *)
Fulfils(kind) ==
  kind \in {"promise-resolved", "thunk-returns", "thunk-async-resolves"}

SafeCall ==
  /\ op = "none" /\ input.op = "safe"
  /\ op' = "safe"
  /\ arg' = input
  /\ task' = Task("awaiting", Fulfils(input.code), input.raw, Undefined, NoError)
  /\ UNCHANGED <<engine, input, out, origin, steps, matched, aux>>

(* errors.safe(input), from the await on: [data, null] when the promise    *)
(* fulfils, [null, ensure(err)] when it rejects; an exception of ensure    *)
(* leaves the catch block and rejects the promise that safe returned       *)
SafeSettled(r) ==
  /\ task' = IF r.raised THEN [task EXCEPT !.phase = "rejected"]
             ELSE [task EXCEPT !.phase = "settled", !.error = r.ev]
  /\ out' = r

SafeSettle ==
  /\ op = "safe" /\ task.phase = "awaiting"
  /\ IF task.fulfils
     THEN /\ task' = [task EXCEPT !.phase = "settled", !.data = Some(task.value)]
          /\ out' = out
     ELSE SafeSettled(ensureFn(engine, task.value, Undefined))
  /\ UNCHANGED <<engine, input, op, arg, origin, steps, matched, aux>>

(* matchesPattern(code, pattern) *)
MatchesPattern ==
  /\ matched.asked = "matches" /\ ~matched.done
  /\ matched' = [matched EXCEPT !.done = TRUE,
                    !.hit = matchesPattern(matched.code, matched.patterns[1])]
  /\ UNCHANGED <<engine, input, op, arg, out, origin, steps, task, aux>>

(* findBestMatchingPattern(code, patterns) *)
FindBestMatchingPattern ==
  /\ matched.asked = "best" /\ ~matched.done
  /\ matched' = [matched EXCEPT !.done = TRUE,
                    !.best = findBestMatchingPattern(matched.code, matched.patterns)]
  /\ UNCHANGED <<engine, input, op, arg, out, origin, steps, task, aux>>

(* errors.match(value, handlers), the handlers' keys being matched.patterns *)
Match ==
  /\ op = "none" /\ input.op = "match"
  /\ matched.asked = "match" /\ ~matched.done
  /\ op' = "match"
  /\ arg' = input
  /\ out' = matchSubject(engine, input.raw)
  /\ matched' = matchAnswer(matched, matchSubject(engine, input.raw))
  /\ UNCHANGED <<engine, input, origin, steps, task, aux>>

(* errata(options): the merge loop of construction *)
Construct ==
  /\ op = "none" /\ ~registry.built
  /\ op' = "errata"
  /\ registry' = Constructed(engine)
  /\ UNCHANGED <<engine, input, arg, out, origin, steps, task, matched, flat, client, nest>>

(* defineCodes(input) *)
DefineCodes ==
  /\ op = "none" /\ ~flat.done
  /\ op' = "defineCodes"
  /\ flat' = [flat EXCEPT !.done = TRUE, !.codes = defineCodes(flat.tree)]
  /\ UNCHANGED <<engine, input, arg, out, origin, steps, task, matched, registry, client, nest>>

(* client.deserialize(payload) *)
ClientDeserialize ==
  /\ op = "none" /\ input.op = "client.deserialize" /\ ~client.done
  /\ op' = "client.deserialize"
  /\ arg' = input
  /\ client' = [client EXCEPT !.done = TRUE,
                               !.res = clientDeserialize(client, input.raw)]
  /\ UNCHANGED <<engine, input, out, origin, steps, task, matched, registry, flat, nest>>

(* A call followed hook by hook, for hooks that use the context they are   *)
(* handed (getContext, lines 251-255): an onCreate hook "reenter" calls    *)
(* ctx.create(error.code), an onUnknown hook "reenter" returns             *)
(* ctx.ensure(err) for the value it was handed.                            *)
Top == nest.stack[Len(nest.stack)]
Pushed(frame) ==
  [nest.stack EXCEPT ![Len(nest.stack)].wait = TRUE] \o <<frame>>
Advanced == [nest.stack EXCEPT ![Len(nest.stack)].pc = @ + 1]

(* a guard that lets a hook re-enter only from the outermost call *)
reenters_Guarded(kind, depth) == kind = "reenter" /\ depth = 1

(* there is no guard: the hook's call of ctx.create or ctx.ensure is a     *)
(* call of createFn or ensureFn like any other                             *)
reenters(kind, depth) == kind = "reenter"

(* errors.create(code) or errors.ensure(value): the call begins *)
Enter ==
  /\ op = "none" /\ input.op \in {"create", "ensure"}
  /\ nest.stack = <<>> /\ ~nest.done
  /\ op' = input.op
  /\ arg' = input
  /\ nest' = [nest EXCEPT !.stack = <<Frame(input.op, IF input.op = "create" THEN 1 ELSE 0, FALSE)>>]
  /\ UNCHANGED <<engine, input, out, origin, steps, task, matched, registry, flat, client>>

(* createFn, lines 306-317: the next plugin's onCreate *)
OnCreateStep ==
  /\ nest.stack # <<>> /\ Top.fn = "create" /\ ~Top.wait
  /\ Top.pc <= Len(engine.plugins)
  /\ IF engine.plugins[Top.pc].onCreate = "absent"
     THEN nest' = [nest EXCEPT !.stack = Advanced]
     ELSE IF reenters(engine.plugins[Top.pc].onCreate, Len(nest.stack))
          THEN /\ Len(nest.stack) < MaxStack
               /\ nest' = [nest EXCEPT !.stack = Pushed(Frame("create", 1, FALSE)),
                                       !.created = @ + 1]
          ELSE nest' = [nest EXCEPT !.stack = Advanced, !.created = @ + 1]
  /\ UNCHANGED <<engine, input, op, arg, out, origin, steps, task, matched, registry, flat, client>>

(* ensureFn, lines 403-414: the global mapper; a code it names is created *)
OnUnknownGlobal ==
  /\ nest.stack # <<>> /\ Top.fn = "ensure" /\ ~Top.wait /\ Top.pc = 0
  /\ IF engine.onUnknown # "absent"
        /\ globalOnUnknown(engine.onUnknown, input.raw).val # Undefined
     THEN /\ Len(nest.stack) < MaxStack
          /\ nest' = [nest EXCEPT !.stack = Pushed(Frame("create", 1, FALSE))]
     ELSE nest' = [nest EXCEPT !.stack = Advanced]
  /\ UNCHANGED <<engine, input, op, arg, out, origin, steps, task, matched, registry, flat, client>>

(* ensureFn, lines 416-434: the next plugin's onUnknown *)
OnUnknownStep ==
  /\ nest.stack # <<>> /\ Top.fn = "ensure" /\ ~Top.wait
  /\ Top.pc >= 1 /\ Top.pc <= Len(engine.plugins)
  /\ IF engine.plugins[Top.pc].onUnknown = "absent"
     THEN nest' = [nest EXCEPT !.stack = Advanced]
     ELSE IF reenters(engine.plugins[Top.pc].onUnknown, Len(nest.stack))
          THEN /\ Len(nest.stack) < MaxStack
               /\ nest' = [nest EXCEPT !.stack = Pushed(Frame("ensure", 0, FALSE)),
                                       !.unknown = @ + 1]
          ELSE IF engine.plugins[Top.pc].onUnknown = "pair"
               THEN /\ Len(nest.stack) < MaxStack
                    /\ nest' = [nest EXCEPT !.stack = Pushed(Frame("create", 1, FALSE)),
                                            !.unknown = @ + 1]
               ELSE nest' = [nest EXCEPT !.stack = Advanced, !.unknown = @ + 1]
  /\ UNCHANGED <<engine, input, op, arg, out, origin, steps, task, matched, registry, flat, client>>

(* the stack once the innermost call has returned: an onCreate hook that   *)
(* made the call goes on to the next plugin; ensure returns what the       *)
(* creation or the hook's ensure gave it                                   *)
Resumed(stack) ==
  IF stack = <<>> THEN stack
  ELSE IF stack[Len(stack)].fn = "create"
       THEN [stack EXCEPT ![Len(stack)].wait = FALSE, ![Len(stack)].pc = @ + 1]
       ELSE [stack EXCEPT ![Len(stack)].wait = FALSE,
                          ![Len(stack)].pc = Len(engine.plugins) + 1]

(* the innermost call returns: createFn after its last hook, ensureFn with *)
(* a result or after its last stage                                        *)
Return ==
  /\ nest.stack # <<>> /\ ~Top.wait
  /\ Top.pc > Len(engine.plugins)
  /\ nest' = [nest EXCEPT !.stack = Resumed(SubSeq(nest.stack, 1, Len(nest.stack) - 1)),
                          !.done = Len(nest.stack) = 1]
  /\ UNCHANGED <<engine, input, op, arg, out, origin, steps, task, matched, registry, flat, client>>

(* errors.http.from(value, fallbackCode?) on a value that the caller caught *)
HttpFrom ==
  /\ op = "none" /\ input.op = "ensure"
  /\ Called("http.from", input, httpFrom(engine, input.raw, input.fallback))
  /\ UNCHANGED <<origin, steps>>

(* The whole engine: every kind of plugin, every caller input. *)
Next ==
  \/ Create
  \/ Ensure
  \/ EnsureExisting
  \/ Serialize
  \/ DeserializeInput
  \/ DeserializeWire
  \/ SafeCall
  \/ SafeSettle
  \/ MatchesPattern
  \/ FindBestMatchingPattern
  \/ Match
  \/ Construct
  \/ DefineCodes
  \/ ClientDeserialize
  \/ Enter
  \/ OnCreateStep
  \/ OnUnknownGlobal
  \/ OnUnknownStep
  \/ Return
  \/ HttpFrom

Init ==
  InitWith(Options(PluginLists({TestPlugin} \cup MapperPlugins
                               \cup ObserverPlugins \cup AdapterPlugins),
                   GlobalMapperKinds, BOOLEAN),
           Inputs)

Spec == Init /\ [][Next]_vars

(* The creation path: plugins that observe creation or contribute codes. *)
InitCreate ==
  InitWith(Options(PluginLists({TestPlugin} \cup ObserverPlugins),
                   {"absent"}, BOOLEAN),
           CreateInputs)
NextCreate == Create
SpecCreate == InitCreate /\ [][NextCreate]_vars

(* The normalization path: the global mapper and plugins that map unknown  *)
(* values.                                                                 *)
InitEnsure ==
  InitWith(Options(PluginLists(MapperPlugins), GlobalMapperKinds, {FALSE}),
           EnsureInputs)
NextEnsure == Ensure \/ EnsureExisting
SpecEnsure == InitEnsure /\ [][NextEnsure]_vars

(* Construction: every combination of supplied and omitted defaults. *)
InitDefaults ==
  InitWith({errata(o) : o \in
              ErrataOptions(PluginLists({TestPlugin}), {"absent"},
                            {Undefined, Some(503)},
                            {Undefined, Some(TRUE), Some(FALSE)},
                            {Undefined, Some(TRUE), Some(FALSE)})},
           CreateInputs)
NextDefaults == Create
SpecDefaults == InitDefaults /\ [][NextDefaults]_vars

(* Records from outside: handed to deserialize, or to ensure as a caught   *)
(* value, on engines with either default exposure.                         *)
ForgedInputs ==
  DeserializeInputs \cup
  {CallInput("ensure", "", DetUndefined, RawRecord("forged", r), f) :
     r \in ForgedRecords, f \in Fallbacks}
InitForged ==
  InitWith(Options(PluginLists(MapperPlugins), {"absent", "syntax"}, BOOLEAN),
           ForgedInputs)
NextForged == Ensure \/ DeserializeInput
SpecForged == InitForged /\ [][NextForged]_vars

(* The tuple helper: safe on every kind of input and every mapper. *)
InitSafe ==
  InitWith(Options(PluginLists(MapperPlugins), {"absent", "syntax"}, {FALSE}),
           SafeInputs)
NextSafe == SafeCall \/ SafeSettle
SpecSafe == InitSafe /\ [][NextSafe]_vars

(* The pattern matcher on its own: every short string over the alphabet   *)
(* as code and as pattern, and the codes and patterns of the tests.        *)
Alphabet == {"a", ".", "*"}
Strings == UNION {[1..n -> Alphabet] : n \in 0..MaxLen}
PlainStrings == UNION {[1..n -> {"a", "."}] : n \in 0..MaxLen}
TestCodes == {AuthInvalidToken, AuthRateLimited, BillingPaymentFailed}
TestPatterns == {AuthInvalidToken, AuthWildcard, DefaultKey}
PatternLists(choices) == UNION {[1..n -> choices] : n \in 0..MaxPatterns}

TestPatternLists ==
  {<<AuthInvalidToken, AuthWildcard, DefaultKey>>,
   <<DefaultKey, AuthWildcard, AuthInvalidToken>>,
   <<AuthWildcard, DefaultKey>>}

MatcherQuestion ==
  \/ \E c \in Strings \cup TestCodes, q \in Strings \cup TestPatterns :
        matched = Question("matches", c, <<q>>)
  \/ \E c \in PlainStrings, l \in PatternLists(Strings) :
        matched = Question("best", c, l)
  \/ \E c \in TestCodes, l \in TestPatternLists :
        matched = Question("best", c, l)

InitPatterns ==
  /\ engine \in Options({<<>>}, {"absent"}, {FALSE})
  /\ input = NoInput
  /\ op = "none"
  /\ arg = NoInput
  /\ out = Returned(NoError, <<>>)
  /\ origin = NoOrigin
  /\ steps = 0
  /\ task = NoTask
  /\ registry = Constructed(engine)
  /\ flat = NoTree
  /\ client = NoClient
  /\ nest = NoNest
  /\ MatcherQuestion
NextPatterns == MatchesPattern \/ FindBestMatchingPattern
SpecPatterns == InitPatterns /\ [][NextPatterns]_vars

(* match on every kind of value, with every list of up to MaxHandlers     *)
(* distinct handler keys.                                                  *)
MatchKeys == {AuthInvalidToken, AuthWildcard, BillingWildcard, DefaultKey, EmptyKey}
HandlerKeyLists ==
  {l \in UNION {[1..n -> MatchKeys] : n \in 0..MaxHandlers} :
     \A i, j \in DOMAIN l : i # j => l[i] # l[j]}
InitMatch ==
  /\ engine \in Options(PluginLists({TestPlugin}), {"absent", "syntax"}, {FALSE})
  /\ input \in MatchInputs
  /\ op = "none"
  /\ arg = NoInput
  /\ out = Returned(NoError, <<>>)
  /\ origin = NoOrigin
  /\ steps = 0
  /\ task = NoTask
  /\ registry = Constructed(engine)
  /\ flat = NoTree
  /\ client = NoClient
  /\ nest = NoNest
  /\ \E keys \in HandlerKeyLists : matched = Question("match", <<>>, keys)
NextMatch == Match
SpecMatch == InitMatch /\ [][NextMatch]_vars

(* Construction: user codes and plugins whose code maps collide with the  *)
(* user codes, with each other and with the reserved id, under repeated    *)
(* plugin names.                                                           *)
OverridingCodes ==
  ("auth.invalid_token" :>
      CodeEntry(Some(403), StaticMessage("Overridden"), Some(FALSE),
                Undefined, Undefined, DetUndefined))
  @@ ("plugin.test_error" :>
      CodeEntry(Some(499), StaticMessage("Overridden"), Undefined,
                Undefined, Undefined, DetUndefined))
ReservedCodes ==
  UnknownErrorCode :>
      CodeEntry(Some(200), StaticMessage("Not so unknown"), Some(TRUE),
                Undefined, Undefined, DetUndefined)
ContributingPlugins ==
  {Plugin(n, m, "absent", "absent", "absent") :
     n \in {"first", "second"},
     m \in {NoCodes, PluginTestCodes, OverridingCodes, ReservedCodes}}
InitRegistry ==
  /\ \E o \in ErrataOptions(PluginLists(ContributingPlugins), {"absent"},
                             {Undefined}, {Undefined}, {Undefined}),
         c \in {UserCodes, ReservedCodes @@ UserCodes} :
        engine = errata([o EXCEPT !.codes = c])
  /\ input = NoInput
  /\ op = "none"
  /\ arg = NoInput
  /\ out = Returned(NoError, <<>>)
  /\ origin = NoOrigin
  /\ steps = 0
  /\ task = NoTask
  /\ matched = NoMatch
  /\ registry = NoRegistry
  /\ flat = NoTree
  /\ client = NoClient
  /\ nest = NoNest
NextRegistry == Construct
SpecRegistry == InitRegistry /\ [][NextRegistry]_vars

(* defineCodes on trees nested up to MaxNesting objects deep: at every     *)
(* level the key a holds any tree of the level below and the key b a       *)
(* config, a config with an object inside, or a value that is no object.   *)
Config(id) == Node("config", id, <<>>)
Shallow ==
  {Config("m1"), Config("m2"), Node("value", "", <<>>),
   Node("config", "m3", <<Entry("a", Config("m4"))>>)}
RECURSIVE Trees(_)
Trees(depth) ==
  IF depth = 0 THEN Shallow
  ELSE Shallow
       \cup {Node("object", "", <<>>)}
       \cup {Node("object", "", <<Entry("a", x)>>) : x \in Trees(depth - 1)}
       \cup {Node("object", "", <<Entry("a", x), Entry("b", y)>>) :
               x \in Trees(depth - 1), y \in Shallow}
InitFlatten ==
  /\ engine \in Options({<<>>}, {"absent"}, {FALSE})
  /\ input = NoInput
  /\ op = "none"
  /\ arg = NoInput
  /\ out = Returned(NoError, <<>>)
  /\ origin = NoOrigin
  /\ steps = 0
  /\ task = NoTask
  /\ matched = NoMatch
  /\ registry = Constructed(engine)
  /\ client = NoClient
  /\ nest = NoNest
  /\ \E tree \in {x \in Trees(MaxNesting) : x.t = "object"} :
        flat = Flat(tree, FALSE, <<>>)
NextFlatten == DefineCodes
SpecFlatten == InitFlatten /\ [][NextFlatten]_vars

(* The client: every list of plugins with an onDeserialize hook, every     *)
(* onUnknown option, every payload.                                        *)
ClientPlugins ==
  {ClientPlugin("adapter", d, c) :
     d \in OnDeserializeKinds, c \in {"absent", "ok", "throw"}}
ClientInputs ==
  {CallInput("client.deserialize", "", DetUndefined, v, Undefined) : v \in RawValues}
InitClient ==
  /\ engine \in Options({<<>>}, {"absent"}, {FALSE})
  /\ input \in ClientInputs
  /\ op = "none"
  /\ arg = NoInput
  /\ out = Returned(NoError, <<>>)
  /\ origin = NoOrigin
  /\ steps = 0
  /\ task = NoTask
  /\ matched = NoMatch
  /\ registry = Constructed(engine)
  /\ flat = NoTree
  /\ nest = NoNest
  /\ \E l \in PluginLists(ClientPlugins), k \in ClientOnUnknownKinds :
        client = Client(l, k)
NextClient == ClientDeserialize
SpecClient == InitClient /\ [][NextClient]_vars

(* Re-entrancy: plugins whose hooks may call back into the engine, a call  *)
(* of create or ensure followed hook by hook.  A call that has begun runs  *)
(* on: JavaScript runs it to completion.                                   *)
ReentrantPlugins ==
  {Plugin("reentrant", NoCodes, u, c, "absent") :
     u \in {"absent", "null", "pair", "reenter"}, c \in {"absent", "ok", "reenter"}}
ReentryInputs ==
  {CallInput("create", MappedCode, DetUndefined, RawNull, Undefined),
   CallInput("ensure", "", DetUndefined, RawError, Undefined),
   CallInput("ensure", "", DetUndefined, RawSyntaxError, Undefined)}
InitReentry ==
  InitWith(Options(PluginLists(ReentrantPlugins), {"absent", "syntax"}, {FALSE}),
           ReentryInputs)
NextReentry == Enter \/ OnCreateStep \/ OnUnknownGlobal \/ OnUnknownStep \/ Return
SpecReentry == InitReentry /\ [][NextReentry]_vars /\ WF_vars(NextReentry)

(* Unknown values on their way out: ensure followed by serialize, and      *)
(* http.from, on engines with either default exposure, with and without    *)
(* onSerialize plugins.                                                    *)
OutboundPlugins ==
  {Plugin("mapper", NoCodes, k, "ok", "absent") : k \in {"null", "pair", "throw"}}
  \cup {Plugin("adapter", NoCodes, "absent", "absent", k) : k \in {"same", "reveal"}}
InitOutbound ==
  InitWith(Options(PluginLists(OutboundPlugins), {"absent", "syntax"}, BOOLEAN),
           EnsureInputs)
NextOutbound == Ensure \/ Serialize \/ HttpFrom
SpecOutbound == InitOutbound /\ [][NextOutbound]_vars

(* Hooks along the normalization path: plugins that both map unknown       *)
(* values (to nothing, to a pair naming a registered, an unregistered or   *)
(* the internal code) and may observe creation.                            *)
HookPlugins ==
  {Plugin("hooks", NoCodes, k, c, "absent") :
     k \in {"null", "pair", "badpair", "internalpair"},
     c \in {"absent"} \cup OnCreateKinds}
HookInputs ==
  {CallInput("ensure", "", DetUndefined, v, f) :
     v \in {RawError, RawSyntaxError,
            RawRecord("forged", Branded("billing.retry_later")
                                  @@ ("message" :> Some("Retry later")))},
     f \in {Undefined, Some("core.internal_error"), Some(UnknownErrorCode),
            Some("constructor")}}
  \cup
  {CallInput("deserialize", "", DetUndefined, RawRecord("forged", r), Undefined) :
     r \in {Branded("billing.retry_later") @@ ("message" :> Some("Retry later")),
            Branded(UnregisteredCode)}}
InitHooks ==
  InitWith(Options(PluginLists(HookPlugins), {"absent", "syntax"}, {FALSE}),
           HookInputs)
NextHooks == Ensure \/ DeserializeInput
SpecHooks == InitHooks /\ [][NextHooks]_vars

(* Serialization with hooks that may return nothing. *)
VoidAdapterPlugins ==
  {Plugin("adapter", NoCodes, "absent", "absent", k) :
     k \in {"void", "same", "tag", "throw"}}
InitAdapters ==
  InitWith(Options(PluginLists(VoidAdapterPlugins), {"absent"}, BOOLEAN),
           CreateInputs)
NextAdapters == Create \/ Serialize
SpecAdapters == InitAdapters /\ [][NextAdapters]_vars

(* The serialization boundary: plugins that adapt the payload. *)
InitBoundary ==
  InitWith(Options(PluginLists(AdapterPlugins), {"absent"}, BOOLEAN),
           CreateInputs \cup DeserializeInputs)
NextBoundary == Create \/ DeserializeInput \/ Serialize \/ DeserializeWire
SpecBoundary == InitBoundary /\ [][NextBoundary]_vars

(***************************************************************************)
(* Properties                                                              *)
(***************************************************************************)
IsEnsureCall == op = "ensure"
IsNormalizeCall == op = "ensure" /\ arg.raw.kind # "errata"
IsCreateCall == op = "create"
IsSerializeCall == op = "serialize"
Registered(code) == code \in DOMAIN mergedCodes(engine)

(* C1: ensure(value, fallbackCode?) never raises: whatever the value, the  *)
(* fallback code and the behaviour of the global mapper and of the plugin  *)
(* hooks, the call returns an Error Value.                                 *)
C1_EnsureNeverRaises ==
  IsEnsureCall => (~out.raised /\ out.ev # NoError)

C2_DetailsIffExposed ==
  IsSerializeCall =>
     (~out.raised /\ ("details" \in DOMAIN out.rec <=> arg.raw.ev.expose))

(* C3: for an exposable Error Value e with a registered code,              *)
(* serialize(deserialize(serialize(e))) equals serialize(e) field for      *)
(* field, on the same engine.  origin holds serialize(e) and e once the    *)
(* record has been deserialized.                                           *)
RoundTripOf == origin.set /\ origin.ev.expose /\ Registered(origin.ev.code)

PassiveHooks ==
  \A i \in DOMAIN engine.plugins :
     engine.plugins[i].onSerialize \in {"absent", "same", "throw"}

HookCalls(calls) == SelectSeq(calls, LAMBDA c : c.fn = "onUnknown")
MadeCall(fn) == \E k \in DOMAIN out.calls : out.calls[k].fn = fn
GlobalYields == engine.onUnknown = "syntax" /\ arg.raw.name = "SyntaxError"
YieldingPlugins ==
  {i \in DOMAIN engine.plugins : engine.plugins[i].onUnknown \in {"pair", "created"}}
FirstYielding == CHOOSE i \in YieldingPlugins : \A j \in YieldingPlugins : i <= j
MappedToUnregistered ==
  \/ engine.onUnknown = "unknowncode"
  \/ \E i \in DOMAIN engine.plugins : engine.plugins[i].onUnknown = "badpair"
CarriesBrand ==
  /\ arg.raw.kind = "object"
  /\ "__brand" \in DOMAIN arg.raw.rec
  /\ arg.raw.rec["__brand"] = LIB_NAME

ResultCode(kind) ==
  IF kind = "pair" THEN "core.internal_error"
  ELSE IF kind = "created" THEN "auth.invalid_token"
  ELSE UnregisteredCode

C6_FirstResultStopsChain ==
  IsNormalizeCall =>
     \A k \in DOMAIN HookCalls(out.calls) :
        LET c == HookCalls(out.calls)[k]
        IN (c.plugin > 0 /\
            engine.plugins[c.plugin].onUnknown \in {"pair", "badpair", "created"}) =>
              /\ k = Len(HookCalls(out.calls))
              /\ ~out.raised
              /\ out.ev.code = ResultCode(engine.plugins[c.plugin].onUnknown)

(* C7: an onUnknown hook that raises is caught and treated as a            *)
(* pass-through: the exception never leaves ensure, and the onUnknown      *)
(* hooks of the later plugins are tried in order exactly as if the raising *)
(* hook had returned nothing.                                              *)
Quiet(p) == IF p.onUnknown = "throw" THEN [p EXCEPT !.onUnknown = "null"] ELSE p
QuietEngine ==
  [engine EXCEPT !.plugins = [i \in DOMAIN @ |-> Quiet(@[i])],
                 !.onUnknown = IF @ = "throw" THEN "absent" ELSE @]
PluginsTried(calls) ==
  [k \in DOMAIN SelectSeq(HookCalls(calls), LAMBDA c : c.plugin > 0) |->
     SelectSeq(HookCalls(calls), LAMBDA c : c.plugin > 0)[k].plugin]
SomeHookRaises ==
  \/ engine.onUnknown = "throw"
  \/ \E i \in DOMAIN engine.plugins : engine.plugins[i].onUnknown = "throw"

C7_RaisingHookPassesThrough ==
  (IsNormalizeCall /\ SomeHookRaises) =>
     /\ out.thrown # "hook"
     /\ \A k \in DOMAIN out.calls : out.calls[k].outcome = "threw" =>
           out.calls[k].fn # "onUnknown"
     /\ out.raised = ensureFn(QuietEngine, arg.raw, arg.fallback).raised
     /\ out.thrown = ensureFn(QuietEngine, arg.raw, arg.fallback).thrown
     /\ out.ev = ensureFn(QuietEngine, arg.raw, arg.fallback).ev
     /\ PluginsTried(out.calls) =
          PluginsTried(ensureFn(QuietEngine, arg.raw, arg.fallback).calls)

C7_Witness ==
  /\ IsNormalizeCall /\ ~out.raised
  /\ arg.raw = RawError
  /\ engine.onUnknown = "throw"
  /\ Len(engine.plugins) = 2
  /\ engine.plugins[1].onUnknown = "throw"
  /\ engine.plugins[2].onUnknown = "pair"
  /\ PluginsTried(out.calls) = <<1, 2>>
  /\ out.ev.code = "core.internal_error"

(* C8: a successful create invokes the onCreate hook of every plugin that  *)
(* has one, exactly once each, in declaration order, with the new Error    *)
(* Value; a hook that raises prevents neither the later hooks nor the      *)
(* return of that Error Value.                                             *)
CreateHookCalls == SelectSeq(out.calls, LAMBDA c : c.fn = "onCreate")
Observers ==
  {i \in DOMAIN engine.plugins : engine.plugins[i].onCreate # "absent"}

C8_OnCreateAllInOrder ==
  (IsCreateCall /\ ~out.raised) =>
     /\ out.ev # NoError
     /\ Len(CreateHookCalls) = Cardinality(Observers)
     /\ \A k \in DOMAIN CreateHookCalls :
           /\ CreateHookCalls[k].plugin \in Observers
           /\ CreateHookCalls[k].subject = out.ev.code
           /\ CreateHookCalls[k].outcome =
                (IF engine.plugins[CreateHookCalls[k].plugin].onCreate = "throw"
                 THEN "caught" ELSE "returned")
     /\ \A k, l \in DOMAIN CreateHookCalls :
           k < l => CreateHookCalls[k].plugin < CreateHookCalls[l].plugin
     /\ \A k \in DOMAIN out.calls : out.calls[k].fn = "onCreate" =>
           \E j \in 1..(k - 1) :
              out.calls[j] = Call("create", 0, "constructed", out.ev.code)

C8_Witness ==
  /\ IsCreateCall /\ ~out.raised
  /\ arg.code = "auth.invalid_token"
  /\ Len(engine.plugins) = 2
  /\ engine.plugins[1].onCreate = "throw"
  /\ engine.plugins[2].onCreate = "ok"
  /\ CreateHookCalls = <<Call("onCreate", 1, "caught", "auth.invalid_token"),
                         Call("onCreate", 2, "returned", "auth.invalid_token")>>
  /\ out.ev.code = "auth.invalid_token"

(* C9: create(code, details?) raises if and only if the code is absent     *)
(* from the registry: an absent code fails with the unknown-code           *)
(* condition, and a registered code yields an Error Value whatever the     *)
(* details argument and the plugins' behaviour.                            *)
C9_RaisesIffUnregistered ==
  IsCreateCall =>
     /\ out.raised <=> ~Registered(arg.code)
     /\ out.raised => out.thrown = "Unknown error code"
     /\ ~out.raised => out.ev.code = arg.code

(* C10: create takes the explicit details argument when one is given and   *)
(* the entry's default details otherwise, and the message is the entry's   *)
(* message evaluated on those details: billing.retry_later, whose default  *)
(* is {retryAfter: 45}, gives "Retry after 45s" with details               *)
(* {retryAfter: 45} when created without details, and "Retry after 10s"    *)
(* when created with {retryAfter: 10}.                                     *)
C10_DetailsAndMessage ==
  (IsCreateCall /\ ~out.raised /\ Registered(arg.code)) =>
     LET entry == mergedCodes(engine)[arg.code]
         given == IF arg.details = DetUndefined THEN entry.details ELSE arg.details
     IN /\ out.ev.details = given
        /\ entry.message.kind = "static" => out.ev.message = entry.message.text
        /\ (arg.code = "billing.retry_later" /\ arg.details = DetUndefined) =>
              /\ out.ev.message = "Retry after 45s"
              /\ out.ev.details = DetRetryAfter(45)
        /\ (arg.code = "billing.retry_later" /\ arg.details = DetRetryAfter(10)) =>
              /\ out.ev.message = "Retry after 10s"
              /\ out.ev.details = DetRetryAfter(10)
        /\ (arg.code = "billing.retry_later" /\ arg.details = DetReason) =>
              out.ev.message = "Retry after undefineds"

C10_Witness ==
  /\ IsCreateCall /\ ~out.raised
  /\ arg.code = "billing.retry_later" /\ arg.details = DetUndefined
  /\ out.ev.message = "Retry after 45s"
  /\ out.ev.details = DetRetryAfter(45)
  /\ out.ev.status = 429

(* C11: for every Error Value returned by create, each of status,          *)
(* exposure, retryable, logLevel and tags is the CodeEntry's value when    *)
(* the entry defines it, otherwise the instance default supplied at        *)
(* construction, otherwise the engine default (500, false, false, "error", *)
(* no tags).                                                               *)
Precedence(entryValue, suppliedValue, engineDefault) ==
  IF entryValue # Undefined THEN entryValue[1]
  ELSE IF suppliedValue # Undefined THEN suppliedValue[1]
  ELSE engineDefault

C11_AttributePrecedence ==
  (IsCreateCall /\ ~out.raised) =>
     LET entry == IF Registered(arg.code) THEN mergedCodes(engine)[arg.code]
                  ELSE PrototypeMember
     IN /\ out.ev.status =
             Precedence(entry.status, engine.supplied.defaultStatus, 500)
        /\ out.ev.expose =
             Precedence(entry.expose, engine.supplied.defaultExpose, FALSE)
        /\ out.ev.retryable =
             Precedence(entry.retryable, engine.supplied.defaultRetryable, FALSE)
        /\ out.ev.logLevel = Precedence(entry.logLevel, Undefined, "error")
        /\ out.ev.tags = Precedence(entry.tags, Undefined, <<>>)

C11_Witness ==
  /\ IsCreateCall /\ ~out.raised
  /\ arg.code = "ops.degraded"
  /\ engine.supplied.defaultStatus = Some(503)
  /\ engine.supplied.defaultExpose = Undefined
  /\ engine.supplied.defaultRetryable = Some(FALSE)
  /\ out.ev.status = 503
  /\ out.ev.expose = FALSE
  /\ out.ev.retryable = TRUE
  /\ out.ev.logLevel = "warn"
  /\ out.ev.tags = <<>>

(* C12: for every record whose code is the reserved catch-all code,        *)
(* deserialize returns an Error Value with exposure false and no tags,     *)
(* whatever the record's tags, details or other fields and whatever        *)
(* defaultExpose; the same when the record reaches deserialize through     *)
(* ensure.                                                                 *)
SentinelDeserialized ==
  /\ op \in {"deserialize", "ensure"}
  /\ arg.raw.kind = "object"
  /\ Field(arg.raw.rec, "code") = UnknownErrorCode
  /\ MadeCall("deserialize")

C12_SentinelHardened ==
  SentinelDeserialized =>
     /\ ~out.raised
     /\ out.ev.code = UnknownErrorCode
     /\ out.ev.expose = FALSE
     /\ out.ev.tags = <<>>

C12_Witness ==
  /\ SentinelDeserialized /\ op = "ensure"
  /\ engine.defaultExpose = TRUE
  /\ Len(engine.plugins) = 2
  /\ engine.plugins[1].onUnknown = "null"
  /\ engine.plugins[2].onUnknown = "throw"
  /\ arg.raw.rec["tags"] = Some(<<"admin">>)
  /\ arg.raw.rec["expose"] = Some(TRUE)
  /\ arg.fallback = Some("core.internal_error")
  /\ out.ev.expose = FALSE /\ out.ev.tags = <<>>

(* C13: serialize and deserialize never raise: serialize(e) returns a      *)
(* record for every Error Value and every onSerialize hook behaviour, and  *)
(* deserialize(r) returns an Error Value for every record, also one with   *)
(* optional fields, message or details missing, or with a code that is     *)
(* not in the registry.                                                    *)
C13_BoundaryNeverRaises ==
  /\ op = "serialize" => (~out.raised /\ out.rec # NoRecord)
  /\ op = "deserialize" => (~out.raised /\ out.ev # NoError)

(* The record handed to the last deserialize call, and the registry entry  *)
(* its code names (none when the code is not registered).                  *)
Record == arg.raw.rec
Has(key) == key \in DOMAIN Record /\ Record[key] # Undefined
RecordEntry ==
  IF Registered(Record["code"]) THEN Some(mergedCodes(engine)[Record["code"]])
  ELSE Undefined
EntryField(f) == IF RecordEntry = Undefined THEN Undefined ELSE RecordEntry[1][f]
FromRecord(key, default) ==
  IF Has(key) THEN Record[key][1]
  ELSE IF EntryField(key) # Undefined THEN EntryField(key)[1]
  ELSE default

LookedUp == codeConfig(engine, Record["code"])
LookedUpField(f) == IF LookedUp = Undefined THEN Undefined ELSE LookedUp[1][f]
RecordFirst(key, default) ==
  IF Has(key) THEN Record[key][1]
  ELSE IF LookedUpField(key) # Undefined THEN LookedUpField(key)[1]
  ELSE default
RecordDetails ==
  IF "details" \in DOMAIN Record THEN Record["details"] ELSE DetUndefined
TemplateRaises ==
  /\ ~Has("message") /\ LookedUp # Undefined
  /\ LookedUp[1].message.kind = "function"
  /\ RecordDetails.t \in {"undefined", "null"}

Projection ==
  IF arg.raw.ev.expose THEN toJSON(arg.raw.ev)
  ELSE [k \in DOMAIN toJSON(arg.raw.ev) \ {"details"} |-> toJSON(arg.raw.ev)[k]]

RECURSIVE PayloadAfter(_)
PayloadAfter(k) ==
  IF k = 0 THEN Projection
  ELSE IF engine.plugins[k].onSerialize \in {"absent", "throw"}
       THEN PayloadAfter(k - 1)
       ELSE onSerializeHook(engine.plugins[k].onSerialize,
                            PayloadAfter(k - 1), arg.raw.ev)

SerializeHookCalls == SelectSeq(out.calls, LAMBDA c : c.fn = "onSerialize")
Adapters ==
  {i \in DOMAIN engine.plugins : engine.plugins[i].onSerialize # "absent"}

C15_SerializeChain ==
  IsSerializeCall =>
     /\ ~out.raised
     /\ out.rec = PayloadAfter(Len(engine.plugins))
     /\ Len(SerializeHookCalls) = Cardinality(Adapters)
     /\ \A k \in DOMAIN SerializeHookCalls :
           /\ SerializeHookCalls[k].plugin \in Adapters
           /\ SerializeHookCalls[k].outcome =
                (IF engine.plugins[SerializeHookCalls[k].plugin].onSerialize = "throw"
                 THEN "caught" ELSE "returned")
     /\ \A k, l \in DOMAIN SerializeHookCalls :
           k < l => SerializeHookCalls[k].plugin < SerializeHookCalls[l].plugin

C15_Witness ==
  /\ IsSerializeCall
  /\ Len(engine.plugins) = 2
  /\ engine.plugins[1].onSerialize = "throw"
  /\ engine.plugins[2].onSerialize = "tag"
  /\ arg.raw.ev.code = "billing.retry_later"
  /\ arg.raw.ev.details = DetRetryAfter(10)
  /\ out.rec["details"] = DetRetryAfter(10)
  /\ out.rec["tags"] = Some(<<"billing", "retry", "adapted">>)
  /\ SerializeHookCalls =
       <<Call("onSerialize", 1, "caught", "billing.retry_later"),
         Call("onSerialize", 2, "returned", "billing.retry_later")>>

(* C16: safe(input) never rejects or raises: for a promise or a            *)
(* zero-argument function (also one that throws synchronously or returns   *)
(* a rejecting promise) it settles to (value, null) when the work          *)
(* succeeds and to (null, ensure(failure)) when it fails, and exactly one  *)
(* of the two positions carries the outcome.                               *)
C16_SafeSettlesToTuple ==
  (op = "safe" /\ task.phase # "awaiting") =>
     /\ task.phase = "settled"
     /\ task.fulfils => (task.data = Some(task.value) /\ task.error = NoError)
     /\ ~task.fulfils =>
          /\ task.data = Undefined
          /\ task.error # NoError
          /\ task.value.kind = "errata" => task.error = task.value.ev

(* The candidates of the last matcher question that are wildcards          *)
(* matching its code, by position.                                         *)
IsWildcard(q) == Len(q) >= 2 /\ q[Len(q) - 1] = "." /\ q[Len(q)] = "*"
BeginsWith(str, prefix) ==
  /\ Len(prefix) <= Len(str)
  /\ \A i \in DOMAIN prefix : str[i] = prefix[i]
WildcardHits ==
  {i \in DOMAIN matched.patterns :
     /\ IsWildcard(matched.patterns[i])
     /\ BeginsWith(matched.code,
          SubSeq(matched.patterns[i], 1, Len(matched.patterns[i]) - 1))}
Listed == \E i \in DOMAIN matched.patterns : matched.patterns[i] = matched.code

(* C17: bestMatch(code, candidates) is the code itself whenever the code   *)
(* is among the candidates; otherwise, among the wildcard candidates that  *)
(* match the code, the one with the greatest prefix length; otherwise      *)
(* undefined.  For auth.invalid_token and {auth.invalid_token, auth.*,     *)
(* default} it is auth.invalid_token.                                      *)
C17_BestMatch ==
  (matched.asked = "best" /\ matched.done) =>
     /\ IF Listed THEN matched.best = Some(matched.code)
        ELSE IF WildcardHits = {} THEN matched.best = Undefined
        ELSE \E i \in WildcardHits :
                /\ matched.best = Some(matched.patterns[i])
                /\ \A j \in WildcardHits :
                      Len(matched.patterns[j]) <= Len(matched.patterns[i])
     /\ (matched.code = AuthInvalidToken /\
         matched.patterns = <<AuthInvalidToken, AuthWildcard, DefaultKey>>) =>
           matched.best = Some(AuthInvalidToken)

C17_Witness ==
  /\ matched.asked = "best" /\ matched.done
  /\ matched.code = AuthInvalidToken
  /\ matched.patterns = <<AuthInvalidToken, AuthWildcard, DefaultKey>>
  /\ matched.best = Some(AuthInvalidToken)

(* C18: matches(code, p) is true if and only if code equals p, or p ends   *)
(* with the terminator `.*` and code starts with p's prefix, the prefix    *)
(* being p with the terminator `.*` removed; `auth.*` matches              *)
(* auth.invalid_token and auth.rate_limited, not billing.payment_failed.   *)
Asked == matched.asked = "matches" /\ matched.done
Pattern == matched.patterns[1]

C18_PrefixWithoutTerminator ==
  Asked =>
     (matched.hit <=>
        \/ matched.code = Pattern
        \/ /\ IsWildcard(Pattern)
           /\ BeginsWith(matched.code, SubSeq(Pattern, 1, Len(Pattern) - 2)))

(* C18 as amended: the prefix is p with only the final `*` removed, so it  *)
(* ends with the dot.                                                      *)
C18_PrefixKeepsDot ==
  Asked =>
     /\ matched.hit <=>
          \/ matched.code = Pattern
          \/ /\ IsWildcard(Pattern)
             /\ BeginsWith(matched.code, SubSeq(Pattern, 1, Len(Pattern) - 1))
     /\ Pattern = AuthWildcard =>
          /\ matched.code \in {AuthInvalidToken, AuthRateLimited} => matched.hit
          /\ matched.code = BillingPaymentFailed => ~matched.hit

C18_Witness ==
  /\ Asked /\ Pattern = AuthWildcard
  /\ matched.code = AuthRateLimited
  /\ matched.hit

(* C19: the result of bestMatch(code, candidates) depends only on the code *)
(* and on the contents of the candidate set, not on the order in which the *)
(* candidates are listed, except when two matching wildcard candidates tie *)
(* in length.                                                              *)
Reorderings ==
  {f \in [DOMAIN matched.patterns -> DOMAIN matched.patterns] :
     \A i, j \in DOMAIN matched.patterns : i # j => f[i] # f[j]}
TieInLength ==
  \E i, j \in WildcardHits :
     i # j /\ Len(matched.patterns[i]) = Len(matched.patterns[j])

C19_OrderIndependent ==
  (matched.asked = "best" /\ matched.done /\ ~TieInLength) =>
     \A f \in Reorderings :
        findBestMatchingPattern(matched.code,
          [i \in DOMAIN matched.patterns |-> matched.patterns[f[i]]]) = matched.best

C19_Witness ==
  /\ matched.asked = "best" /\ matched.done
  /\ matched.code = <<".", ".", "a">>
  /\ matched.patterns = << <<".", "*">>, <<".", ".", "*">> >>
  /\ matched.best = Some(<<".", ".", "*">>)
  /\ ~TieInLength

(* C20: match(value, handlers) first normalizes a value that is not an     *)
(* Error Value through ensure, then invokes exactly one handler with the   *)
(* normalized Error Value: the handler keyed by bestMatch over the handler *)
(* keys other than `default`; if bestMatch is undefined, the `default`     *)
(* handler; and if there is no `default` handler either, no handler is     *)
(* invoked and undefined is returned.                                      *)
HasDefault == \E i \in DOMAIN matched.patterns : matched.patterns[i] = DefaultKey
KeysButDefault == SelectSeq(matched.patterns, LAMBDA k : k # DefaultKey)
BestKey == findBestMatchingPattern(Chars(out.ev.code), KeysButDefault)

C20_MatchInvokesOneHandler ==
  op = "match" =>
     /\ ~out.raised /\ matched.done
     /\ out.ev # NoError
     /\ arg.raw.kind = "errata" => out.ev = arg.raw.ev
     /\ arg.raw.kind # "errata" => out = ensureFn(engine, arg.raw, Undefined)
     /\ matched.handler = IF BestKey # Undefined THEN BestKey
                          ELSE IF HasDefault THEN Some(DefaultKey) ELSE Undefined

(* C21: the registry is the user code map with each plugin's code map      *)
(* merged on top in plugin declaration order: every id defined by any      *)
(* contributor is present, the entry of the last contributor is the one in *)
(* the registry, a warning is emitted for each id a plugin redefines, and  *)
(* neither an id collision nor a repeated plugin name makes construction   *)
(* fail.                                                                   *)
Contributors(id) ==
  {i \in DOMAIN engine.plugins : id \in DOMAIN engine.plugins[i].codes}
LastContributor(id) ==
  CHOOSE i \in Contributors(id) : \A j \in Contributors(id) : j <= i
ContributedIds ==
  DOMAIN engine.codes \cup UNION {DOMAIN engine.plugins[i].codes : i \in DOMAIN engine.plugins}
Redefines(i, id) ==
  /\ id \in DOMAIN engine.plugins[i].codes
  /\ id \in DOMAIN engine.codes \/ \E j \in Contributors(id) : j < i

C21_RegistryMerge ==
  op = "errata" =>
     /\ registry.built /\ ~out.raised
     /\ DOMAIN registry.codes = ContributedIds
     /\ \A id \in ContributedIds :
           registry.codes[id] =
             IF Contributors(id) = {} THEN engine.codes[id]
             ELSE engine.plugins[LastContributor(id)].codes[id]
     /\ \A i \in DOMAIN engine.plugins : \A id \in ContributedIds :
           Redefines(i, id) => Warning("code", i, id) \in registry.warnings

C21_Witness ==
  /\ op = "errata" /\ registry.built
  /\ Len(engine.plugins) = 2
  /\ engine.plugins[1].name = engine.plugins[2].name
  /\ engine.plugins[1].codes = OverridingCodes
  /\ engine.plugins[2].codes = PluginTestCodes
  /\ registry.codes["plugin.test_error"] = PluginTestCodes["plugin.test_error"]
  /\ registry.codes["auth.invalid_token"] = OverridingCodes["auth.invalid_token"]
  /\ Warning("code", 2, "plugin.test_error") \in registry.warnings
  /\ Warning("name", 2, "") \in registry.warnings

(* C25: the catch-all sentinel id is reserved and never user-definable:    *)
(* whatever the user codes and the plugin code maps contain, the registry  *)
(* built at construction holds no CodeEntry under the sentinel id.         *)
C25_SentinelNotInRegistry ==
  registry.built => UnknownErrorCode \notin DOMAIN registry.codes

(* C22: flatten(tree) recurses one level only: a node with a message field *)
(* is a leaf stored under its dot-joined path and is never descended into, *)
(* a top-level non-leaf object contributes its leaf children under         *)
(* `parent.child`, nothing nested more than one level deep is added to the *)
(* map, and non-object values are ignored.                                 *)
TopEntries == flat.tree.entries
TopLeaves ==
  {Entry(TopEntries[i].key, TopEntries[i].value.id) :
     i \in {k \in DOMAIN TopEntries : TopEntries[k].value.t = "config"}}
ChildLeavesOf(parent) ==
  {Entry(parent.key \o "." \o parent.value.entries[j].key, parent.value.entries[j].value.id) :
     j \in {k \in DOMAIN parent.value.entries : parent.value.entries[k].value.t = "config"}}
ChildLeaves ==
  UNION {ChildLeavesOf(TopEntries[i]) :
           i \in {k \in DOMAIN TopEntries : TopEntries[k].value.t = "object"}}

C22_FlattenOneLevel ==
  flat.done =>
     {Entry(k, flat.codes[k]) : k \in DOMAIN flat.codes} = TopLeaves \cup ChildLeaves

(* C23: when the global unknown-mapper names a registered code for a value *)
(* that is not an Error Value, ensure returns an Error Value of that code  *)
(* created with details {cause: value}.                                    *)
MapperNamed ==
  IF engine.onUnknown = "absent" THEN Undefined
  ELSE globalOnUnknown(engine.onUnknown, arg.raw).val
MapperNamesRegistered ==
  /\ IsNormalizeCall
  /\ MapperNamed # Undefined
  /\ Registered(MapperNamed[1])

C23_MappedWithCause ==
  MapperNamesRegistered =>
     /\ ~out.raised
     /\ out.ev.code = MapperNamed[1]
     /\ out.ev.details = DetCause(arg.raw.name)

(* C23 as amended: the details are {raw: value}.                           *)
C23_MappedWithRaw ==
  MapperNamesRegistered =>
     /\ ~out.raised
     /\ out.ev.code = MapperNamed[1]
     /\ out.ev.details = DetRaw(arg.raw.name)

C23_Witness ==
  /\ MapperNamesRegistered
  /\ arg.raw = RawSyntaxError
  /\ ~out.raised
  /\ out.ev.code = MappedCode
  /\ out.ev.details = DetRaw("SyntaxError")

(* C24: client-side deserialize tries the plugins' onDeserialize hooks in   *)
(* declaration order: the first hook that returns a non-null result        *)
(* determines the returned error and no later plugin's onDeserialize is    *)
(* invoked; a hook that raises is treated as returning null; and if every  *)
(* hook returns null the standard deserialization of the payload is used.  *)
DeserializeHookCalls ==
  SelectSeq(client.res.calls, LAMBDA c : c.fn = "onDeserialize")
Answering ==
  {i \in DOMAIN client.plugins : client.plugins[i].onDeserialize \in {"undefined", "error"}}
FirstAnswering == CHOOSE i \in Answering : \A j \in Answering : i <= j
HooksTried ==
  {i \in DOMAIN client.plugins :
     /\ client.plugins[i].onDeserialize # "absent"
     /\ Answering # {} => i <= FirstAnswering}

C24_FirstNonNullWins ==
  client.done =>
     /\ Len(DeserializeHookCalls) = Cardinality(HooksTried)
     /\ \A k \in DOMAIN DeserializeHookCalls :
           /\ DeserializeHookCalls[k].plugin \in HooksTried
           /\ \A m \in DOMAIN DeserializeHookCalls :
                 k < m => DeserializeHookCalls[k].plugin < DeserializeHookCalls[m].plugin
     /\ Answering # {} =>
           /\ ~client.res.raised
           /\ client.res.value =
                IF client.plugins[FirstAnswering].onDeserialize = "error"
                THEN ClientError(FirstAnswering, AdaptedCode, Some("adapted"), DetUndefined)
                ELSE NoClientError
     /\ Answering = {} =>
           /\ client.res.value.by = 0
           /\ [client.res EXCEPT !.calls = <<>>]
                = [standardDeserialize(client, arg.raw, <<>>) EXCEPT !.calls = <<>>]

C24_Witness ==
  /\ client.done
  /\ Len(client.plugins) = 2
  /\ client.plugins[1].onDeserialize = "throw"
  /\ client.plugins[2].onDeserialize = "error"
  /\ Len(DeserializeHookCalls) = 2
  /\ client.res.value.by = 2

(* C26: the engine enforces no re-entrancy guard: an onCreate hook that     *)
(* calls ctx.create, or an onUnknown hook that calls ctx.ensure on the raw *)
(* value it was handed, re-enters the same hook chain and recurses without *)
(* bound (here: down to any depth the model allows); when no hook          *)
(* re-enters the engine, every call terminates                             *)
(* after at most one pass over the plugin list per hook kind.              *)
HookOf(frame) ==
  IF frame.fn = "create" THEN engine.plugins[frame.pc].onCreate
  ELSE IF frame.pc = 0 THEN "global" ELSE engine.plugins[frame.pc].onUnknown
InReenteringHook(k) ==
  /\ nest.stack[k].wait
  /\ nest.stack[k].pc <= Len(engine.plugins)
  /\ HookOf(nest.stack[k]) = "reenter"
Reentered == \E k \in DOMAIN nest.stack : InReenteringHook(k)
NoReenteringHook ==
  \A i \in DOMAIN engine.plugins :
     engine.plugins[i].onCreate # "reenter" /\ engine.plugins[i].onUnknown # "reenter"

C26_NoReentrancyGuard ==
  /\ Reentered ~> (Len(nest.stack) = MaxStack)
  /\ [](\A k \in DOMAIN nest.stack :
          (InReenteringHook(k) /\ k < Len(nest.stack)) =>
             /\ nest.stack[k + 1].fn = nest.stack[k].fn
             /\ nest.stack[k + 1].pc <= nest.stack[k].pc)
  /\ (NoReenteringHook /\ op # "none") ~> nest.done
  /\ [](NoReenteringHook =>
          /\ nest.created <= Len(engine.plugins)
          /\ nest.unknown <= Len(engine.plugins))

C26_Witness ==
  /\ Len(nest.stack) = MaxStack
  /\ \A k \in 1..(MaxStack - 1) : InReenteringHook(k)
  /\ nest.created >= MaxStack - 1

(* C27: when ensure falls through to the built-in catch-all, the resulting *)
(* Error Value has exposure false under every instance configuration       *)
(* (defaultExpose = true included), so with no onSerialize plugin neither  *)
(* serialize(ensure(value)) nor http.from(value).body.error contains a     *)
(* details field.                                                          *)
BuiltCatchAll ==
  \E k \in DOMAIN out.calls : out.calls[k].fn = "createInternalError"
NoSerializeHooks ==
  \A i \in DOMAIN engine.plugins : engine.plugins[i].onSerialize = "absent"

C27_CatchAllNeverExposed ==
  /\ (op \in {"ensure", "http.from"} /\ ~out.raised /\ BuiltCatchAll) =>
        out.ev.expose = FALSE
  /\ (op = "http.from" /\ ~out.raised /\ BuiltCatchAll /\ NoSerializeHooks) =>
        /\ out.rec # NoRecord
        /\ "details" \notin DOMAIN out.rec
  /\ (op = "serialize" /\ arg.raw.ev.code = UnknownErrorCode /\ NoSerializeHooks) =>
        /\ ~out.raised
        /\ "details" \notin DOMAIN out.rec

C27_Witness ==
  /\ op = "http.from" /\ ~out.raised /\ BuiltCatchAll
  /\ engine.defaultExpose = TRUE
  /\ arg.raw = RawError /\ arg.fallback = Undefined
  /\ NoSerializeHooks
  /\ out.ev.code = UnknownErrorCode
  /\ "details" \notin DOMAIN out.rec

C27_WitnessSerialized ==
  /\ op = "serialize" /\ arg.raw.ev.code = UnknownErrorCode
  /\ engine.defaultExpose = TRUE /\ NoSerializeHooks
  /\ "details" \notin DOMAIN out.rec

(* C28: onCreate hooks are invoked only on the creation path: an Error     *)
(* Value produced by deserialize or by ensure's built-in catch-all         *)
(* construction is returned with no onCreate hook invoked, whereas one     *)
(* produced by ensure through the global mapper, a plugin's {code, details}*)
(* pair or the fallback code triggers each onCreate hook exactly once.     *)
PairPlugins ==
  {i \in DOMAIN engine.plugins :
     engine.plugins[i].onUnknown \in {"pair", "internalpair"}}
FirstPair == CHOOSE i \in PairPlugins : \A j \in PairPlugins : i <= j
ThroughMapper == IsNormalizeCall /\ GlobalYields
ThroughPair == IsNormalizeCall /\ ~GlobalYields /\ PairPlugins # {}
ThroughFallback ==
  /\ IsNormalizeCall /\ ~GlobalYields /\ PairPlugins = {}
  /\ ~CarriesBrand /\ arg.fallback # Undefined
ThroughDeserialize ==
  \/ op = "deserialize"
  \/ IsNormalizeCall /\ ~GlobalYields /\ PairPlugins = {} /\ CarriesBrand
ThroughCatchAll ==
  /\ IsNormalizeCall /\ ~GlobalYields /\ PairPlugins = {}
  /\ ~CarriesBrand /\ arg.fallback = Undefined
NamedCode ==
  IF ThroughPair THEN pairCode(engine.plugins[FirstPair].onUnknown)
  ELSE arg.fallback[1]

NoCreateHook == CreateHookCalls = <<>>
EachCreateHookOnce ==
  /\ Len(CreateHookCalls) = Cardinality(Observers)
  /\ \A i \in Observers :
        Cardinality({k \in DOMAIN CreateHookCalls :
                       /\ CreateHookCalls[k].plugin = i
                       /\ CreateHookCalls[k].subject = out.ev.code}) = 1

(* the claim as stated *)
C28_HooksOnEveryNamedCode ==
  (op \in {"ensure", "deserialize"} /\ ~out.raised) =>
     /\ (ThroughDeserialize \/ ThroughCatchAll) => NoCreateHook
     /\ (ThroughMapper \/ ThroughPair \/ ThroughFallback) => EachCreateHookOnce

(* C28, amended: as stated, except that a pair or a fallback naming a code *)
(* that createBoundaryError treats as internal is built by the catch-all   *)
(* construction, with no onCreate hook invoked.                            *)
C28_HooksOnCreationPathOnly ==
  (op \in {"ensure", "deserialize"} /\ ~out.raised) =>
     /\ (ThroughDeserialize \/ ThroughCatchAll) => NoCreateHook
     /\ ThroughMapper => EachCreateHookOnce
     /\ (ThroughPair \/ ThroughFallback) =>
           /\ out.ev.code = NamedCode
           /\ IF internalCodeSet(NamedCode)
              THEN NoCreateHook /\ MadeCall("createInternalError")
              ELSE EachCreateHookOnce /\ ~MadeCall("createInternalError")

C28_Witness ==
  /\ op = "ensure" /\ ~out.raised /\ ThroughPair
  /\ Len(engine.plugins) = 2
  /\ engine.plugins[1].onUnknown = "internalpair"
  /\ engine.plugins[1].onCreate = "ok"
  /\ engine.plugins[2].onCreate = "throw"
  /\ out.ev.code = UnknownErrorCode
  /\ NoCreateHook

C28_WitnessCreated ==
  /\ op = "ensure" /\ ~out.raised /\ ThroughFallback
  /\ arg.fallback = Some("core.internal_error")
  /\ Len(engine.plugins) = 2
  /\ engine.plugins[1].onUnknown = "badpair"
  /\ engine.plugins[1].onCreate = "throw"
  /\ engine.plugins[2].onCreate = "ok"
  /\ Len(CreateHookCalls) = 2

(* C29: an onSerialize hook that returns no payload (undefined) leaves the *)
(* payload unchanged: serialize always returns a record carrying the brand *)
(* marker, and every later onSerialize hook is handed a record, never a    *)
(* missing payload.                                                        *)
C29_VoidHookKeepsPayload ==
  op = "serialize" =>
     /\ ~out.raised
     /\ out.rec # MissingPayload
     /\ "__brand" \in DOMAIN out.rec
     /\ out.rec["__brand"] = LIB_NAME
     /\ \A k \in DOMAIN SerializeHookCalls :
           SerializeHookCalls[k].subject # "undefined"

(* the payload is lost to the caller and to the next hook *)
C29_LostPayload ==
  /\ op = "serialize" /\ ~out.raised
  /\ Len(engine.plugins) = 2
  /\ engine.plugins[1].onSerialize = "void"
  /\ engine.plugins[2].onSerialize = "tag"
  /\ out.rec = MissingPayload
  /\ SerializeHookCalls =
       <<Call("onSerialize", 1, "returned", arg.raw.ev.code),
         Call("onSerialize", 2, "caught", "undefined")>>

(* C30: for every code and every candidate list, two distinct wildcard     *)
(* candidates that both match the code have different lengths, so the tie  *)
(* case never arises between distinct patterns and findBestMatchingPattern *)
(* returns the same pattern for every permutation of the candidates.       *)
MatchingWildcardAt(i) ==
  /\ isWildcardPattern(matched.patterns[i])
  /\ matchesPattern(matched.code, matched.patterns[i])
Permuted(f) == [i \in DOMAIN matched.patterns |-> matched.patterns[f[i]]]

C30_NoTieBetweenDistinctPatterns ==
  (matched.asked = "best" /\ matched.done) =>
     /\ \A i, j \in DOMAIN matched.patterns :
           (/\ MatchingWildcardAt(i) /\ MatchingWildcardAt(j)
            /\ matched.patterns[i] # matched.patterns[j]) =>
              Len(matched.patterns[i]) # Len(matched.patterns[j])
     /\ \A f \in Reorderings :
           findBestMatchingPattern(matched.code, Permuted(f)) = matched.best

C30_Witness ==
  /\ matched.asked = "best" /\ matched.done
  /\ matched.code = <<".", ".", ".">>
  /\ matched.patterns = << <<".", "*">>, <<".", ".", "*">> >>
  /\ MatchingWildcardAt(1) /\ MatchingWildcardAt(2)
  /\ matched.best = Some(<<".", ".", "*">>)
  /\ findBestMatchingPattern(matched.code,
       << <<".", ".", "*">>, <<".", "*">> >>) = matched.best

====
